---- MODULE Spec2Model ----
(***************************************************************************)
(* Gauntlet sound ROM tool (gauntlet_disasm.py): the ROM access layer,     *)
(* the command resolver and the bytecode sequence interpreter, modelled    *)
(* as state machines.                                                      *)
(*                                                                         *)
(* Conventions                                                             *)
(*  - A ROM image is a record [len, fill, mem]: len(self.data), and the    *)
(*    byte at every CPU address (mem where it is listed, fill elsewhere).  *)
(*  - A raised ValueError / IndexError is the value ValueError/IndexError  *)
(*    returned in place of the result.                                     *)
(*  - Python floats are modelled as exact rationals <<num, den>>.          *)
(***************************************************************************)
EXTENDS Integers, Sequences, FiniteSets, TLC

VARIABLES
    rom,                \* GauntletROM: the image held in self.data
    \* ---- ROM access layer: the last read issued and its outcome
    rd_op, rd_addr, rd_n, rd_result,
    \* ---- resolve_command
    res_pc, cmd, info, offset, channels, cur, seen,
    \* ---- SequenceInterpreter._interpret_sequence
    status, stop, start_addr, channel_id, hw_mode, has_pokey, has_ym,
    max_seconds, pc, return_stack, loop_stack, tempo, volume, transpose,
    freq_offset, distortion, ctrl_bits, repeat_count, variables, var_reg,
    pokey_env, cumulative_frames, icount, events, emitted,
    \* ---- POKEYEmulator._init_poly4_5 / _init_poly9_17: the table being built
    poly,
    \* ---- disassemble_sequence: its locals and the list it returns
    dis,
    \* ---- the event-driven render loops (_render_pokey_events,
    \* _render_ym_events, sfx_to_wav, music_to_wav): locals and chip calls
    rl,
    \* ---- sfx_to_wav / music_to_wav: the event lists of the FM voices and
    \* all_events
    mg,
    \* ---- write_midi: timelines, song_end, the loop counters and the
    \* note on / note off ticks written
    midi,
    \* ---- sfx_to_wav: all_samples, the group accumulators, the scales and
    \* the PCM written
    mix,
    \* ---- TMS5220Emulator: bitstream cursor, counters, talk flags and the
    \* number of samples appended by synthesize
    tms,
    \* ---- POKEYEmulator: two emulators given the same register writes,
    \* A rendering a span in one call and B in two
    pk,
    \* ---- YM2151Emulator: the same arrangement for the FM chip
    ym

rd_vars  == <<rd_op, rd_addr, rd_n, rd_result>>
res_vars == <<res_pc, cmd, info, offset, channels, cur, seen>>
seq_regs == <<tempo, volume, transpose, freq_offset, distortion, ctrl_bits,
              repeat_count, variables, var_reg>>
seq_in   == <<start_addr, channel_id, has_pokey, has_ym, max_seconds>>
seq_vars == <<status, stop, seq_in, hw_mode, pc, return_stack, loop_stack,
              seq_regs, pokey_env, cumulative_frames, icount, events,
              emitted>>
dev_vars == <<poly, dis, rl, mg, midi, mix, tms, pk, ym>>
vars     == <<rom, rd_vars, res_vars, seq_vars, dev_vars>>
base_vars == <<rom, rd_vars, res_vars, seq_vars>>
not_poly == <<base_vars, dis, rl, mg, midi, mix, tms, pk, ym>>
not_dis == <<base_vars, poly, rl, mg, midi, mix, tms, pk, ym>>
not_rl == <<base_vars, poly, dis, mg, midi, mix, tms, pk, ym>>
not_mg == <<base_vars, poly, dis, rl, midi, mix, tms, pk, ym>>
not_midi == <<base_vars, poly, dis, rl, mg, mix, tms, pk, ym>>
not_mix == <<base_vars, poly, dis, rl, mg, midi, tms, pk, ym>>
not_tms == <<base_vars, poly, dis, rl, mg, midi, mix, pk, ym>>
not_pk == <<base_vars, poly, dis, rl, mg, midi, mix, tms, ym>>
not_ym == <<base_vars, poly, dis, rl, mg, midi, mix, tms, pk>>

(***************************************************************************)
(* Program constants                                                       *)
(***************************************************************************)
ROM_BASE == 16384    \* 0x4000
ROM_END == 65535    \* 0xFFFF
ROM_SIZE == 49152    \* 0xC000
DISPATCH_TYPE_TABLE == 24042    \* 0x5DEA
DISPATCH_PARAM_TABLE == 24261    \* 0x5EC5
SFX_OFFSET_TABLE == 24488    \* 0x5FA8
SFX_PRIORITY_TABLE == 24612    \* 0x6024
SFX_CHANNEL_TABLE == 24794    \* 0x60DA
SFX_SEQ_PTR_TABLE == 24976    \* 0x6190
SFX_NEXT_TABLE == 25340    \* 0x62FC
MUSIC_INDEX_TABLE == 25522    \* 0x63B2
MUSIC_SEQ_PTR_TABLE == 33865    \* 0x8449
MUSIC_SEQ_LEN_TABLE == 34243    \* 0x85C3
DURATION_TABLE_ADDR == 23647    \* 0x5C5F
FREQ_TABLE_ADDR == 23093    \* 0x5A35
max_instructions == 50000
MAX_SILENT       == 4
MAX_CHAIN        == 30
SILENCE_FRAMES   == 600
FRAME_RATE       == 120

\* Exceptions, as values returned in place of a result
ValueError == -1
IndexError == -2
Raised(v)  == v \in {ValueError, IndexError}

\* Python's None
None == -3

(***************************************************************************)
(* Integer helpers                                                         *)
(***************************************************************************)
Min(a, b) == IF a < b THEN a ELSE b
Max(a, b) == IF a > b THEN a ELSE b

RECURSIVE BitAnd(_, _)
\* a & b on non-negative integers
BitAnd(a, b) ==
    IF a = 0 \/ b = 0 THEN 0
    ELSE (a % 2) * (b % 2) + 2 * BitAnd(a \div 2, b \div 2)

RECURSIVE BitOr(_, _)
\* a | b on non-negative integers
BitOr(a, b) ==
    IF a = 0 THEN b
    ELSE IF b = 0 THEN a
    ELSE Max(a % 2, b % 2) + 2 * BitOr(a \div 2, b \div 2)

\* a & ~b for non-negative a and a byte b (Python's unbounded ~)
BitAndNot(a, b) == a - BitAnd(a, b)

\* signed value of a byte: "if val >= 128: val -= 256"
Signed8(v) == IF v >= 128 THEN v - 256 ELSE v

(***************************************************************************)
(* Exact rationals <<num, den>>, den > 0, in lowest terms                  *)
(***************************************************************************)
RECURSIVE Gcd(_, _)
Gcd(a, b) == IF b = 0 THEN a ELSE Gcd(b, a % b)

Abs(a) == IF a < 0 THEN 0 - a ELSE a

Rat(n, d) ==
    LET g == Gcd(Abs(n), d) IN
    IF g = 0 THEN <<0, 1>> ELSE <<n \div g, d \div g>>

RInt(n)       == <<n, 1>>
RAdd(p, q)    == Rat(p[1] * q[2] + q[1] * p[2], p[2] * q[2])
RDivInt(p, k) == Rat(p[1], p[2] * k)
RLt(p, q)     == p[1] * q[2] < q[1] * p[2]
RLe(p, q)     == p[1] * q[2] <= q[1] * p[2]
RMax(p, q)    == IF RLt(p, q) THEN q ELSE p
\* int(x) for x >= 0
RFloor(p)     == p[1] \div p[2]
RMulInt(p, k) == Rat(p[1] * k, p[2])

(***************************************************************************)
(* ROM images                                                              *)
(***************************************************************************)
\* the bytes of seq laid out from CPU address base
Bytes(base, seq) == [a \in base..(base + Len(seq) - 1) |-> seq[a - base + 1]]

\* a 16-bit little-endian word
Word(w) == <<w % 256, w \div 256>>

\* ---- image "main": sequences for the interpreter, END (0xFF) elsewhere ----
\* duration table entries 1..3: 4, 1536 and 3 ticks
DurationTable == Bytes(DURATION_TABLE_ADDR + 2, Word(4) \o Word(1536) \o Word(3))

\* note frequency table: entry n is the word 256 + 3n
FreqTable ==
    [a \in FREQ_TABLE_ADDR..(FREQ_TABLE_ADDR + 255) |->
        LET n == (a - FREQ_TABLE_ADDR) \div 2
            w == 256 + 3 * n
        IN IF (a - FREQ_TABLE_ADDR) % 2 = 0 THEN w % 256 ELSE w \div 256]

\* $7000: scalars, notes, rest, call/return, PUSH_SEQ out of ROM, END
SeqBasic == Bytes(\h7000, <<
    \h80, \h10,         \* SET_TEMPO  $10 (tempo 4)
    \h82, \h08,         \* SET_VOLUME 8
    \h30, \h01,         \* note $30, duration index 1
    \h32, \h81,         \* note $32, sustain
    \h00, \h01,         \* rest
    \h8D, \h00, \h71,   \* PUSH_SEQ $7100
    \h30, \h43,         \* note $30, dotted, duration index 3
    \h84, \hFE,         \* ADD_TRANSPOSE -2
    \h8A, \hC0,         \* SET_DISTORTION
    \h8B, \h01,         \* SET_CTRL_BITS
    \h8C, \h01,         \* CLR_CTRL_BITS
    \hA0, \hFF,         \* FREQ_OFFSET -1
    \hA7, \h02,         \* FREQ_ADD 2
    \h81, \hFD,         \* ADD_TEMPO $FD (tempo 1)
    \h89, \h02,         \* SET_REPEAT
    \h83, \h05,         \* SET_VOLUME_CHK
    \h85, \h00,         \* NOP_FE_CHECK
    \h30, \h01,         \* note
    \h8D, \h00, \h30,   \* PUSH_SEQ $3000 (outside ROM)
    \hFF >>)            \* END

\* $7100: sub-segment returning through CHAIN
SeqSub == Bytes(\h7100, << \h35, \h01, \h00, \h00 >>)

\* $7200: POKEY envelopes while tempo is 0
SeqEnv == Bytes(\h7200, <<
    \h87, \h00, \h78,   \* SET_VOL_ENV  $7800
    \h86, \h20, \h78,   \* SET_FREQ_ENV $7820
    \h82, \h04,         \* SET_VOLUME 4
    \h30, \h01,         \* note (duration 0 frames at tempo 0)
    \h31, \h01,         \* note
    \h00, \h01,         \* rest: ring-out until silent
    \h97, \h00,         \* RESET_ENVELOPE
    \h00, \h01,         \* rest without envelope
    \h00, \h00 >>)      \* CHAIN with an empty return stack

\* volume envelope: +8 x2, -16 x3, loop marker (2 passes, back 4), end
VolEnv  == Bytes(\h7800, << \h02, \h08, \h03, \hF0, \hFF, \h02, \h04, \h00 >>)
\* frequency envelope: +16 x2, end
FreqEnv == Bytes(\h7820, << \h02, \h10, \h00, \h00 >>)

\* $7300: counted loop, variables, conditional jumps, YM opcodes
SeqCtl == Bytes(\h7300, <<
    \h80, \h10,              \* 7300 SET_TEMPO
    \h8E, \h03,              \* 7302 PUSH_SEQ_EXT 3
    \h30, \h01,              \* 7304 note
    \h8F, \h00,              \* 7306 POP_SEQ
    \hA4, \h00, \hFE,        \* 7308 VAR_LOAD var0 = $FE
    \h30, \h01,              \* 730B note
    \hAF, \h13, \h73,        \* 730D COND_JUMP_INC $7313
    \h99, \h0B, \h73,        \* 7310 SET_SEQ_PTR $730B
    \hA9, \h01,              \* 7313 VAR_ADD 1
    \hAA, \h01,              \* 7315 VAR_SUB 1
    \hAE, \h1C, \h73,        \* 7317 COND_JUMP $731C
    \h30, \h01,              \* 731A note (skipped)
    \hB5, \h00, \h23, \h73,  \* 731C COND_JUMP_EQ var0, $7323
    \h30, \h01,              \* 7320 note (skipped)
    \hFF,                    \* 7322 END
    \hB6, \h00, \h40, \h73,  \* 7323 COND_JUMP_NE var0, $7340
    \hB7, \h00, \h2D, \h73,  \* 7327 COND_JUMP_PL var0, $732D
    \h30, \h01,              \* 732B note (skipped)
    \hB8, \h00, \h00, \h70,  \* 732D COND_JUMP_MI var0, $7000
    \h8F, \h00,              \* 7331 POP_SEQ, loop stack empty
    \h9F, \h20, \hC7,        \* 7333 YM_LOAD_REG
    \h91, \h00,              \* 7336 SWITCH_YM2151
    \h9D, \h00, \h79,        \* 7338 SET_VOICE $7900
    \h90, \h00,              \* 733B SWITCH_POKEY
    \h9C, \h00,              \* 733D FORCE_POKEY
    \h9E, \h01, \h02,        \* 733F YM_LOAD_ENV
    \h99, \h00, \h30 >>)     \* 7342 SET_SEQ_PTR $3000 (outside ROM)

\* $7400: a stream that jumps back into itself without advancing time
SeqSpin == Bytes(\h7400, <<
    \h9D, \h00, \h79,   \* SET_VOICE $7900
    \h99, \h00, \h74 >>)\* SET_SEQ_PTR $7400

\* $7500: a stream that loops over a long note
SeqLong == Bytes(\h7500, <<
    \h80, \h04,         \* SET_TEMPO $04 (tempo 1)
    \h30, \h02,         \* note, duration index 2 (1536 frames)
    \h99, \h02, \h75 >>)\* SET_SEQ_PTR $7502

\* $7600: a call made inside a called sub-segment, each returning by CHAIN
SeqNest == Bytes(\h7600, <<
    \h80, \h10,         \* 7600 SET_TEMPO
    \h8D, \h10, \h76,   \* 7602 PUSH_SEQ $7610
    \h30, \h01,         \* 7605 note
    \hFF >>) @@         \* 7607 END
    Bytes(\h7610, <<
    \h8D, \h20, \h76,   \* 7610 PUSH_SEQ $7620
    \h31, \h01,         \* 7613 note
    \h20, \h00 >>) @@   \* 7615 CHAIN
    Bytes(\h7620, <<
    \h32, \h01,         \* 7620 note
    \h20, \h00 >>)      \* 7622 CHAIN

\* $7640: a counted loop of 3 passes inside a counted loop of 2 passes
SeqLoops == Bytes(\h7640, <<
    \h80, \h10,         \* 7640 SET_TEMPO (tempo 4)
    \h8E, \h02,         \* 7642 PUSH_SEQ_EXT 2
    \h30, \h01,         \* 7644 note, 1 frame
    \h8E, \h03,         \* 7646 PUSH_SEQ_EXT 3
    \h31, \h03,         \* 7648 note, 3/4 frame
    \h8F, \h00,         \* 764A POP_SEQ
    \h8F, \h00,         \* 764C POP_SEQ
    \hFF >>)            \* 764E END

\* $7660: a counted loop of count 1 inside a counted loop of 3 passes
SeqLoopOne == Bytes(\h7660, <<
    \h80, \h10,         \* 7660 SET_TEMPO (tempo 4)
    \h8E, \h03,         \* 7662 PUSH_SEQ_EXT 3
    \h8E, \h01,         \* 7664 PUSH_SEQ_EXT 1
    \h31, \h03,         \* 7666 note, 3/4 frame
    \h8F, \h00,         \* 7668 POP_SEQ
    \h30, \h01,         \* 766A note, 1 frame
    \h8F, \h00,         \* 766C POP_SEQ
    \hFF >>)            \* 766E END

\* $7680: counted loops of count 1 and 0, not nested
SeqLoopFlat == Bytes(\h7680, <<
    \h80, \h10,         \* 7680 SET_TEMPO (tempo 4)
    \h8E, \h01,         \* 7682 PUSH_SEQ_EXT 1
    \h30, \h01,         \* 7684 note, 1 frame
    \h8F, \h00,         \* 7686 POP_SEQ
    \h8E, \h00,         \* 7688 PUSH_SEQ_EXT 0
    \h31, \h03,         \* 768A note, 3/4 frame
    \h8F, \h00,         \* 768C POP_SEQ
    \hFF >>)            \* 768E END

\* $76A0: a sub-segment call back to the note before it
SeqRecur == Bytes(\h76A0, <<
    \h80, \h04,         \* 76A0 SET_TEMPO $04 (tempo 1)
    \h30, \h02,         \* 76A2 note, duration index 2 (1536 frames)
    \h8D, \hA2, \h76 >>)\* 76A4 PUSH_SEQ $76A2

\* $76C0: variable arithmetic followed by conditional jumps
SeqVarOps == Bytes(\h76C0, <<
    \hA4, \h00, \h0F,   \* 76C0 VAR_LOAD var0 = $0F
    \hAB, \hF0,         \* 76C3 VAR_AND $F0
    \hAE, \hD0, \h76,   \* 76C5 COND_JUMP $76D0
    \hAC, \h01,         \* 76C8 VAR_OR $01
    \hAD, \h0E,         \* 76CA VAR_XOR $0E
    \hAF, \hD0, \h76,   \* 76CC COND_JUMP_INC $76D0
    \hFF,               \* 76CF END
    \h80, \h10,         \* 76D0 SET_TEMPO
    \h30, \h01,         \* 76D2 note
    \hFF >>)            \* 76D4 END

\* $76E0: notes under transpose and frequency offset
SeqTranspose == Bytes(\h76E0, <<
    \h80, \h10,         \* 76E0 SET_TEMPO
    \h84, \h50,         \* 76E2 ADD_TRANSPOSE $50
    \h30, \h01,         \* 76E4 note $30: ($30 + $50) mod 128 = 0
    \hA0, \h05,         \* 76E6 FREQ_OFFSET 5
    \h31, \h01,         \* 76E8 note $31: index 1
    \h84, \h7F,         \* 76EA ADD_TRANSPOSE $7F (transpose $4F)
    \h30, \h01,         \* 76EC note $30: index 127
    \hFF >>)            \* 76EE END

\* $7700: envelopes that drive both accumulators into their limits
SeqSaturate == Bytes(\h7700, <<
    \h80, \h04,         \* 7700 SET_TEMPO $04 (tempo 1)
    \h82, \h04,         \* 7702 SET_VOLUME 4
    \h87, \h30, \h78,   \* 7704 SET_VOL_ENV  $7830
    \h86, \h40, \h78,   \* 7707 SET_FREQ_ENV $7840
    \h8E, \h09,         \* 770A PUSH_SEQ_EXT 9
    \h30, \h01,         \* 770C note, 4 frames
    \h8F, \h00,         \* 770E POP_SEQ
    \h86, \h48, \h78,   \* 7710 SET_FREQ_ENV $7848
    \h8E, \h09,         \* 7713 PUSH_SEQ_EXT 9
    \h30, \h01,         \* 7715 note, 4 frames
    \h8F, \h00,         \* 7717 POP_SEQ
    \hFF >>)            \* 7719 END

\* volume envelope: +127 x3, -128 x3, end
VolEnvSat == Bytes(\h7830, << \h03, \h7F, \h03, \h80, \h00 >>)
\* frequency envelopes: -32768 x40, end; +32767 x40, end
FreqEnvDown == Bytes(\h7840, << \h28, \h00, \h80, \h00 >>)
FreqEnvUp == Bytes(\h7848, << \h28, \hFF, \h7F, \h00 >>)

\* $7740: a rest at tempo 0 under a frequency envelope, volume 8
SeqRing == Bytes(\h7740, <<
    \h82, \h08,         \* 7740 SET_VOLUME 8
    \h86, \h60, \h78,   \* 7742 SET_FREQ_ENV $7860
    \h00, \h01,         \* 7745 rest
    \hFF >>)            \* 7747 END

\* frequency envelope: +1 x254, three times, end
FreqEnvSlow == Bytes(\h7860, <<
    \hFE, \h01, \h00, \hFE, \h01, \h00, \hFE, \h01, \h00, \h00 >>)

\* $7760: a rest at tempo 0 whose volume is silent for 2 frames, audible
\* for 1 frame and then silent
SeqFade == Bytes(\h7760, <<
    \h82, \h01,         \* 7760 SET_VOLUME 1
    \h87, \h70, \h78,   \* 7762 SET_VOL_ENV $7870
    \h00, \h01,         \* 7765 rest
    \hFF >>)            \* 7767 END

\* volume envelope: -8 x2, +24 x1, -16 x6, end
VolEnvFade == Bytes(\h7870, << \h02, \hF8, \h01, \h18, \h06, \hF0, \h00 >>)

\* $B000: envelope tables, every string of four of these bytes in turn
EnvBytes == << \h00, \h01, \h03, \hFF >>

EnvBase == \hB000

\* byte j of the k-th string
EnvByte(k, j) == EnvBytes[((k \div 4^j) % 4) + 1]

EnvTables ==
    [a \in EnvBase..(EnvBase + 4 * 4^4 - 1) |->
        EnvByte((a - EnvBase) \div 4, (a - EnvBase) % 4)]

\* $7900: an FM voice definition (1 + 4 x 6 bytes)
VoiceDef == [a \in \h7900..(\h7900 + 24) |-> (a - \h7900) * 5 % 256]

\* $FFE7: an FM voice definition whose 25th byte is the last byte of the ROM
VoiceEnd == [a \in \hFFE7..\hFFFD |-> ((a - \hFFE7) * 7 + 129) % 256]

\* the last two bytes of the ROM: a 2-operand opcode, then a note byte
SeqTop == Bytes(\hFFFE, << \h99, \h30 >>)

MainMem == SeqTop @@ VoiceEnd @@ SeqBasic @@ SeqSub @@ SeqEnv @@ VolEnv @@ FreqEnv @@
           SeqCtl @@ SeqSpin @@ SeqLong @@ VoiceDef @@ DurationTable @@
           FreqTable @@ SeqNest @@ SeqLoops @@ SeqLoopOne @@ SeqLoopFlat @@
           SeqRecur @@ SeqVarOps @@ SeqTranspose @@ SeqSaturate @@
           VolEnvSat @@ FreqEnvDown @@ FreqEnvUp @@ SeqRing @@ FreqEnvSlow @@
           SeqFade @@ VolEnvFade @@ EnvTables

\* ---- image "sfx": dispatch tables for the resolver, 0x00 elsewhere ----
\* next-offset chain: 1 -> 2 -> 0, 3 -> 4 -> 3, 7 -> 7, 10 -> 11 -> ... -> 50
NextTable ==
    Bytes(SFX_NEXT_TABLE + 1, << 2, 0, 4, 3 >>) @@
    Bytes(SFX_NEXT_TABLE + 7, << 7 >>) @@
    [a \in (SFX_NEXT_TABLE + 10)..(SFX_NEXT_TABLE + 49) |->
        a - SFX_NEXT_TABLE + 1]

SfxMem ==
    \* commands 0..5: types 7, 7, 7, 11, 0, 7; command $DA: type 7
    Bytes(DISPATCH_TYPE_TABLE, << 7, 7, 7, 11, 0, 7 >>) @@
    Bytes(DISPATCH_TYPE_TABLE + 218, << 7 >>) @@
    Bytes(DISPATCH_PARAM_TABLE, << 0, 1, 2, 3, 4, 5 >>) @@
    Bytes(DISPATCH_PARAM_TABLE + 218, << 6 >>) @@
    \* params 0..6 -> first offset 1, 3, 0, -, -, 10, 7
    Bytes(SFX_OFFSET_TABLE, << 1, 3, 0, 0, 0, 10, 7 >>) @@
    Bytes(SFX_PRIORITY_TABLE + 1, << 9, 8, 7, 6 >>) @@
    Bytes(SFX_CHANNEL_TABLE + 1, << 1, 5, 2, 12 >>) @@
    \* seq pointers of offsets 1, 2 and 4 (offset 3 and the rest: $0000)
    Bytes(SFX_SEQ_PTR_TABLE + 2, Word(\h7000) \o Word(\h7200)) @@
    Bytes(SFX_SEQ_PTR_TABLE + 8, Word(\h7300)) @@
    NextTable @@
    \* speech: param 3 -> index 2 -> pointer $9000, length $0040
    Bytes(MUSIC_INDEX_TABLE + 3, << 2 >>) @@
    Bytes(MUSIC_SEQ_PTR_TABLE + 4, Word(\h9000)) @@
    Bytes(MUSIC_SEQ_LEN_TABLE + 4, Word(\h0040))

NoMem == [a \in {} |-> 0]

\* ---- image "calls": streams that call, return, jump and run off the end,
\* 0xFF elsewhere ----
CallsMem ==
    \* $4000: PUSH_SEQ $4003 / $4003: NOTE / $4005: CHAIN (back to $4003)
    Bytes(\h4000, << \h8D, \h03, \h40, \h20, \h21, \h20, \h00 >>) @@
    \* $4100: SET_TEMPO, PUSH_SEQ $2000 (RAM), PUSH_SEQ $4100 (the start),
    \* COND_JUMP_EQ, PUSH_SEQ $4200, then SET_SEQ_PTR $4200 (seen)
    Bytes(\h4100, << \h80, \h10, \h8D, \h00, \h20, \h8D, \h00, \h41,
                     \hB5, \h01, \h00, \h42, \h8D, \h00, \h42,
                     \h99, \h00, \h42 >>) @@
    \* $4200: REST, CHAIN
    Bytes(\h4200, << \h00, \h21, \h20, \h00 >>) @@
    \* $4300: SET_SEQ_PTR $4310 / $4310: SET_SEQ_PTR $1000 (outside ROM)
    Bytes(\h4300, << \h99, \h10, \h43 >>) @@
    Bytes(\h4310, << \h99, \h00, \h10 >>) @@
    \* $4400: NOTE, then END ($FF) / $4500: CHAIN with nothing to return to
    Bytes(\h4400, << \h30, \h21 >>) @@
    Bytes(\h4500, << \h20, \h00 >>) @@
    \* $FFFD: SET_VOLUME, then PUSH_SEQ cut off by the end of the ROM
    Bytes(\hFFFD, << \h82, \h05, \h8D >>)

\* a truncated file (the constructor only warns): 0x1F00 bytes
ShortLen == 7936

ImageLen ==
    [ main |-> ROM_SIZE, notes |-> ROM_SIZE, sfx |-> ROM_SIZE,
      sevens |-> ROM_SIZE, short |-> ShortLen, calls |-> ROM_SIZE ]

Images ==
    [ main   |-> [fill |-> \hFF, mem |-> MainMem],
      notes  |-> [fill |-> \h01, mem |-> NoMem],
      sfx    |-> [fill |-> \h00, mem |-> SfxMem],
      sevens |-> [fill |-> \h07, mem |-> NoMem],
      short  |-> [fill |-> \h00, mem |-> SfxMem],
      calls  |-> [fill |-> \hFF, mem |-> CallsMem] ]

(***************************************************************************)
(* GauntletROM                                                             *)
(***************************************************************************)
\* len(self.data)
DataLen(r) == ImageLen[r]

\* the byte of image img at CPU address a
ByteAt(img, a) == IF a \in DOMAIN img.mem THEN img.mem[a] ELSE img.fill

\* self.data[off]
Data(r, off) ==
    IF off < 0 \/ off >= DataLen(r) THEN IndexError
    ELSE ByteAt(Images[r], off + ROM_BASE)

_offset(r, addr) ==
    IF addr < ROM_BASE \/ addr > ROM_END THEN ValueError
    ELSE IF addr - ROM_BASE >= DataLen(r) THEN ValueError
    ELSE addr - ROM_BASE

read_byte(r, addr) ==
    LET off == _offset(r, addr) IN
    IF Raised(off) THEN off ELSE Data(r, off)

\* read_word without the check that the high byte lies inside the data
read_word_nocheck(r, addr) ==
    LET off == _offset(r, addr) IN
    IF Raised(off) THEN off
    ELSE Data(r, off) + 256 * Data(r, off + 1)

read_word(r, addr) ==
    LET off == _offset(r, addr) IN
    IF Raised(off) THEN off
    ELSE IF off + 1 >= DataLen(r) THEN ValueError
    ELSE Data(r, off) + 256 * Data(r, off + 1)

\* the outcome of a call: the exception raised (0 when none) and the bytes
\* returned
Outcome(v) ==
    IF Raised(v) THEN [exc |-> v, val |-> << >>]
    ELSE [exc |-> 0, val |-> << v >>]

read_bytes(r, addr, n) ==
    LET off == _offset(r, addr) IN
    IF Raised(off) THEN [exc |-> off, val |-> << >>]
    ELSE LET end == Min(off + n, DataLen(r)) IN
         [exc |-> 0,
          val |-> [i \in 1..Max(end - off, 0) |-> Data(r, off + i - 1)]]

(***************************************************************************)
(* States of the three machines before they are started                    *)
(***************************************************************************)
ReadIdle ==
    /\ rd_op = "none" /\ rd_addr = 0 /\ rd_n = 0
    /\ rd_result = [exc |-> 0, val |-> << >>]

\* CommandInfo(...) as constructed at the top of resolve_command
CommandInfo(c, ht, p) ==
    [cmd |-> c, handler_type |-> ht, param |-> p, seq_ptr |-> None,
     seq_len |-> None, priority |-> None, channel |-> None, offset |-> None,
     has_sequence |-> FALSE, is_speech |-> FALSE]

ResolveIdle ==
    /\ res_pc = "idle" /\ cmd = 0 /\ info = CommandInfo(0, 0, 0)
    /\ offset = 0 /\ channels = << >> /\ cur = 0 /\ seen = {}

\* the POKEY envelope state a voice starts with
InitEnv ==
    [freq_active |-> FALSE, freq_ptr |-> 0, freq_pos |-> 0,
     freq_frame_ctr |-> 0, freq_delta |-> 0, freq_accum |-> 0,
     freq_loop_count |-> -1,
     vol_active |-> FALSE, vol_ptr |-> 0, vol_pos |-> 0,
     vol_frame_ctr |-> 0, vol_delta |-> 0, vol_accum |-> 0,
     vol_loop_count |-> -1]

\* the returned list `events`, kept as its running summary: length, number
\* of `end` events, number of instructions that appended to it, whether
\* every event so far was appended at a time >= its predecessor's, and the
\* kind and time of the last event
NoEvents ==
    [n |-> 0, ends |-> 0, batches |-> 0, ordered |-> TRUE,
     last |-> "none", last_t |-> RInt(0)]

\* the locals of _interpret_sequence before the loop
InterpLocals(start) ==
    /\ pc = start /\ return_stack = << >> /\ loop_stack = << >>
    /\ tempo = 0 /\ volume = 0 /\ transpose = 0 /\ freq_offset = 0
    /\ distortion = \hA0 /\ ctrl_bits = 0 /\ repeat_count = 0
    /\ variables = [i \in 0..7 |-> 0] /\ var_reg = 0
    /\ pokey_env = InitEnv
    /\ cumulative_frames = RInt(0) /\ icount = 0
    /\ events = NoEvents /\ emitted = << >>

InterpIdle ==
    /\ status = "idle" /\ stop = "none"
    /\ start_addr = 0 /\ channel_id = 0 /\ hw_mode = "POKEY"
    /\ has_pokey = FALSE /\ has_ym = FALSE /\ max_seconds = 0
    /\ InterpLocals(0)

\* no polynomial table is being built
PolyIdle == poly = [size |-> 0, lfsr |-> 0, len |-> 0]

\* build_channel_timeline before its loop: tempo = 0,
\* cumulative_frames = 0.0, events = []; n is len(events), raised tells
\* that a read of the duration table left the function with an exception
NoTimeline ==
    [tempo |-> 0, cumulative_frames |-> << 0, 1 >>, n |-> 0, time |-> << 0, 1 >>,
     duration |-> << 0, 1 >>, raised |-> FALSE]

\* disassemble_sequence is not running
DisIdle ==
    dis = [status |-> "idle", addr |-> 0, total |-> 0, return_stack |-> << >>,
           visited_segments |-> {}, visited_addrs |-> {}, decoded |-> {},
           n |-> 0, markers |-> 0, twice |-> FALSE, timeline |-> NoTimeline]

\* no render loop is running
RlIdle ==
    rl = [kind |-> "none", pc |-> "idle", events |-> << >>,
          total_samples |-> 0, current_sample |-> 0, event_idx |-> 0,
          chunks |-> << >>, chip_n |-> 0, applied |-> << >>,
          it_cur |-> 0, it_idx |-> 0, iters |-> 0, returned |-> None]

\* no voices are being merged
MgIdle == mg = [pc |-> "idle", traces |-> << >>, ch |-> 0, all_events |-> << >>]

\* write_midi is not running
MidiIdle ==
    midi = [pc |-> "idle", timelines |-> << >>, song_end |-> RInt(0),
            ch_idx |-> 0, i |-> 0, events |-> << >>]

\* sfx_to_wav is not mixing
MixIdle ==
    mix = [pc |-> "idle", all_samples |-> << >>, k |-> 0, pokey_l |-> << >>,
           ym_l |-> << >>, ym_r |-> << >>, n_pokey |-> 0, n_ym |-> 0,
           pk_scale |-> RInt(0), ym_scale |-> RInt(0), mixed |-> << >>]

\* the speech chip after _reset(), before synthesize is called
TmsIdle ==
    tms = [status |-> "idle", data |-> << >>, pos |-> 0, IP |-> 0, PC |-> 0,
           subcycle |-> 1, SPEN |-> FALSE, TALK |-> FALSE, TALKD |-> FALSE,
           new_frame_energy_idx |-> 0, new_frame_pitch_idx |-> 0,
           n |-> 0, stop_n |-> None, OLDE |-> TRUE, OLDP |-> TRUE,
           inhibit |-> FALSE]

\* no POKEY emulator constructed
PkIdle == pk = [status |-> "idle"]

\* no YM2151 emulator constructed
YmIdle == ym = [status |-> "idle"]

DevIdle == PolyIdle /\ DisIdle /\ RlIdle /\ MgIdle /\ MidiIdle /\ MixIdle /\ TmsIdle /\ PkIdle /\ YmIdle
BaseIdle == ReadIdle /\ ResolveIdle /\ InterpIdle
IdleBut_poly == BaseIdle /\ DisIdle /\ RlIdle /\ MgIdle /\ MidiIdle /\ MixIdle /\ TmsIdle /\ PkIdle /\ YmIdle
IdleBut_dis == BaseIdle /\ PolyIdle /\ RlIdle /\ MgIdle /\ MidiIdle /\ MixIdle /\ TmsIdle /\ PkIdle /\ YmIdle
IdleBut_rl == BaseIdle /\ PolyIdle /\ DisIdle /\ MgIdle /\ MidiIdle /\ MixIdle /\ TmsIdle /\ PkIdle /\ YmIdle
IdleBut_mg == BaseIdle /\ PolyIdle /\ DisIdle /\ RlIdle /\ MidiIdle /\ MixIdle /\ TmsIdle /\ PkIdle /\ YmIdle
IdleBut_midi == BaseIdle /\ PolyIdle /\ DisIdle /\ RlIdle /\ MgIdle /\ MixIdle /\ TmsIdle /\ PkIdle /\ YmIdle
IdleBut_mix == BaseIdle /\ PolyIdle /\ DisIdle /\ RlIdle /\ MgIdle /\ MidiIdle /\ TmsIdle /\ PkIdle /\ YmIdle
IdleBut_tms == BaseIdle /\ PolyIdle /\ DisIdle /\ RlIdle /\ MgIdle /\ MidiIdle /\ MixIdle /\ PkIdle /\ YmIdle
IdleBut_pk == BaseIdle /\ PolyIdle /\ DisIdle /\ RlIdle /\ MgIdle /\ MidiIdle /\ MixIdle /\ TmsIdle /\ YmIdle
IdleBut_ym == BaseIdle /\ PolyIdle /\ DisIdle /\ RlIdle /\ MgIdle /\ MidiIdle /\ MixIdle /\ TmsIdle /\ PkIdle

(***************************************************************************)
(* The ROM access layer, driven with reads around the ends of the data     *)
(***************************************************************************)
MaxReadLen == 3

ReadAddrs(r) ==
    {ROM_BASE - 1, ROM_BASE, ROM_BASE + DataLen(r) - 2,
     ROM_BASE + DataLen(r) - 1, ROM_BASE + DataLen(r), ROM_END, ROM_END + 1}

ReadByte ==
    \E addr \in ReadAddrs(rom) :
        /\ rd_op' = "read_byte" /\ rd_addr' = addr /\ rd_n' = 1
        /\ rd_result' = Outcome(read_byte(rom, addr))
        /\ UNCHANGED <<rom, res_vars, seq_vars, dev_vars>>

ReadWord ==
    \E addr \in ReadAddrs(rom) :
        /\ rd_op' = "read_word" /\ rd_addr' = addr /\ rd_n' = 2
        /\ rd_result' = Outcome(read_word(rom, addr))
        /\ UNCHANGED <<rom, res_vars, seq_vars, dev_vars>>

ReadBytes ==
    \E addr \in ReadAddrs(rom), n \in 0..MaxReadLen :
        /\ rd_op' = "read_bytes" /\ rd_addr' = addr /\ rd_n' = n
        /\ rd_result' = read_bytes(rom, addr, n)
        /\ UNCHANGED <<rom, res_vars, seq_vars, dev_vars>>

InitRead == rom \in DOMAIN Images /\ ReadIdle /\ ResolveIdle /\ InterpIdle /\ DevIdle
NextRead == ReadByte \/ ReadWord \/ ReadBytes
SpecRead == InitRead /\ [][NextRead]_vars

(***************************************************************************)
(* resolve_command                                                         *)
(***************************************************************************)
CmdIds == {-1, 218, 219} \cup 0..7

\* ChannelInfo(offset, priority, channel, seq_ptr)
ChannelInfo(o, p, c, s) ==
    [offset |-> o, priority |-> p, channel |-> c, seq_ptr |-> s]

\* entry: range check, the two dispatch reads, then the branch on the type
ResolveCall ==
    /\ res_pc = "idle"
    /\ \E c \in CmdIds :
        LET ht == read_byte(rom, DISPATCH_TYPE_TABLE + c)
            p  == read_byte(rom, DISPATCH_PARAM_TABLE + c)
            o  == read_byte(rom, SFX_OFFSET_TABLE + p)
            ix == read_byte(rom, MUSIC_INDEX_TABLE + p)
            sp == read_word(rom, MUSIC_SEQ_PTR_TABLE + ix * 2)
            sl == read_word(rom, MUSIC_SEQ_LEN_TABLE + ix * 2)
        IN
        /\ cmd' = c
        /\ IF c < 0 \/ c > \hDA
           THEN /\ res_pc' = "returned_none"
                /\ UNCHANGED <<info, offset, channels, cur, seen>>
           ELSE IF Raised(ht) \/ Raised(p)
           THEN /\ res_pc' = "raised"
                /\ UNCHANGED <<info, offset, channels, cur, seen>>
           ELSE IF ht = 7
           THEN IF Raised(o)
                THEN /\ res_pc' = "raised"
                     /\ info' = CommandInfo(c, ht, p)
                     /\ UNCHANGED <<offset, channels, cur, seen>>
                ELSE /\ res_pc' = "walk"
                     /\ info' = CommandInfo(c, ht, p)
                     /\ offset' = o /\ channels' = << >>
                     /\ cur' = o /\ seen' = {}
           ELSE IF ht = 11
           THEN IF Raised(ix) \/ Raised(sp) \/ Raised(sl)
                THEN /\ res_pc' = "raised"
                     /\ info' = CommandInfo(c, ht, p)
                     /\ UNCHANGED <<offset, channels, cur, seen>>
                ELSE /\ res_pc' = "returned"
                     /\ info' = [CommandInfo(c, ht, p) EXCEPT
                                   !.offset = ix, !.seq_ptr = sp,
                                   !.seq_len = sl, !.has_sequence = TRUE,
                                   !.is_speech = TRUE]
                     /\ UNCHANGED <<offset, channels, cur, seen>>
           ELSE /\ res_pc' = "returned"
                /\ info' = CommandInfo(c, ht, p)
                /\ UNCHANGED <<offset, channels, cur, seen>>
    /\ UNCHANGED <<rom, rd_vars, seq_vars, dev_vars>>

\* the loop condition without the 30-entry limit
WalkCond_nolimit == cur # 0 /\ cur \notin seen

\* the loop condition of the chain walk
WalkCond == cur # 0 /\ cur \notin seen /\ Len(channels) < MAX_CHAIN

\* one iteration of the chain walk
WalkStep ==
    /\ res_pc = "walk" /\ WalkCond
    /\ LET pr == read_byte(rom, SFX_PRIORITY_TABLE + cur)
           ch == read_byte(rom, SFX_CHANNEL_TABLE + cur)
           sp == read_word(rom, SFX_SEQ_PTR_TABLE + cur * 2)
           nx == read_byte(rom, SFX_NEXT_TABLE + cur)
       IN IF Raised(pr) \/ Raised(ch) \/ Raised(sp) \/ Raised(nx)
          THEN /\ res_pc' = "raised"
               /\ seen' = seen \cup {cur}
               /\ UNCHANGED <<channels, cur>>
          ELSE /\ seen' = seen \cup {cur}
               /\ channels' = Append(channels, ChannelInfo(cur, pr, ch, sp))
               /\ cur' = nx
               /\ UNCHANGED res_pc
    /\ UNCHANGED <<rom, cmd, info, offset, rd_vars, seq_vars, dev_vars>>

\* the primary-channel fields taken from the last link instead of the first
WalkExit_last ==
    /\ res_pc = "walk" /\ ~WalkCond
    /\ info' = [info EXCEPT
                  !.offset = offset,
                  !.priority = IF channels # << >>
                               THEN channels[Len(channels)].priority
                               ELSE None,
                  !.channel = IF channels # << >>
                              THEN channels[Len(channels)].channel
                              ELSE None,
                  !.seq_ptr = IF channels # << >>
                              THEN channels[Len(channels)].seq_ptr
                              ELSE None,
                  !.has_sequence = TRUE]
    /\ res_pc' = "returned"
    /\ UNCHANGED <<rom, cmd, offset, channels, cur, seen, rd_vars, seq_vars, dev_vars>>

\* after the walk: the primary-channel fields, has_sequence, return
WalkExit ==
    /\ res_pc = "walk" /\ ~WalkCond
    /\ info' = [info EXCEPT
                  !.offset = offset,
                  !.priority = IF channels # << >> THEN channels[1].priority
                               ELSE None,
                  !.channel = IF channels # << >> THEN channels[1].channel
                              ELSE None,
                  !.seq_ptr = IF channels # << >> THEN channels[1].seq_ptr
                              ELSE None,
                  !.has_sequence = TRUE]
    /\ res_pc' = "returned"
    /\ UNCHANGED <<rom, cmd, offset, channels, cur, seen, rd_vars, seq_vars, dev_vars>>

InitResolve == rom \in DOMAIN Images /\ ReadIdle /\ ResolveIdle /\ InterpIdle /\ DevIdle
NextResolve == ResolveCall \/ WalkStep \/ WalkExit
SpecResolve == InitResolve /\ [][NextResolve]_vars

(***************************************************************************)
(* SequenceInterpreter: events                                             *)
(***************************************************************************)
\* one entry of the list `events`: (time_secs, event_type, data)
Event(t, kind, data) == [t |-> t, kind |-> kind, data |-> data]

\* events.append for every event of seq, in order, on the summary of the
\* list (one instruction appended them)
AppendAll(ev, seq) ==
    IF seq = << >> THEN ev
    ELSE [n       |-> ev.n + Len(seq),
          ends    |-> ev.ends
                      + Cardinality({i \in 1..Len(seq) : seq[i].kind = "end"}),
          batches |-> ev.batches + 1,
          ordered |-> /\ ev.ordered
                      /\ ev.n = 0 \/ RLe(ev.last_t, seq[1].t)
                      /\ \A i \in 1..(Len(seq) - 1) : RLe(seq[i].t, seq[i + 1].t),
          last    |-> seq[Len(seq)].kind,
          last_t  |-> seq[Len(seq)].t]

(***************************************************************************)
(* SequenceInterpreter._step_pokey_envelopes                               *)
(***************************************************************************)
RECURSIVE ScanFreq(_, _)
RECURSIVE ScanFreqMarker(_, _, _, _)

\* a frequency entry (count, delta_lo, delta_hi) at freq_pos
ScanFreqEntry(fe, count, lo, hi) ==
    IF Raised(lo) \/ Raised(hi) THEN [fe EXCEPT !.freq_active = FALSE]
    ELSE [fe EXCEPT
            !.freq_delta = 8 * (IF hi * 256 + lo >= \h8000
                                THEN hi * 256 + lo - \h10000
                                ELSE hi * 256 + lo),
            !.freq_frame_ctr = count,
            !.freq_pos = fe.freq_pos + 3]

\* the byte count read at freq_pos
ScanFreqAt(r, fe, count) ==
    IF Raised(count) THEN [fe EXCEPT !.freq_active = FALSE]
    ELSE IF count = \hFF
    THEN ScanFreqMarker(r, fe,
                        read_byte(r, fe.freq_ptr + fe.freq_pos + 1),
                        read_byte(r, fe.freq_ptr + fe.freq_pos + 2))
    ELSE IF count = 0 THEN [fe EXCEPT !.freq_active = FALSE]
    ELSE ScanFreqEntry(fe, count,
                       read_byte(r, fe.freq_ptr + fe.freq_pos + 1),
                       read_byte(r, fe.freq_ptr + fe.freq_pos + 2))

\* a 0xFF loop marker at freq_pos: lc and back are the two bytes after it
ScanFreqMarker(r, fe, lc, back) ==
    IF Raised(lc) THEN [fe EXCEPT !.freq_pos = 0]
    ELSE IF (IF fe.freq_loop_count = -1 THEN lc ELSE fe.freq_loop_count) <= 0
    THEN [fe EXCEPT !.freq_loop_count = IF @ = -1 THEN lc ELSE @,
                    !.freq_pos = 0]
    ELSE IF (IF fe.freq_loop_count = -1 THEN lc ELSE fe.freq_loop_count) - 1 > 0
    THEN IF Raised(back)
         THEN [fe EXCEPT !.freq_loop_count = (IF @ = -1 THEN lc ELSE @) - 1,
                         !.freq_pos = 0]
         ELSE ScanFreq(r, [fe EXCEPT
                             !.freq_loop_count = (IF @ = -1 THEN lc ELSE @) - 1,
                             !.freq_pos = Max(0, @ - back)])
    ELSE ScanFreq(r, [fe EXCEPT
                        !.freq_loop_count = (IF @ = -1 THEN lc ELSE @) - 1,
                        !.freq_pos = @ + 3])

\* the `while True` scan for the next frequency-envelope entry
ScanFreq(r, fe) == ScanFreqAt(r, fe, read_byte(r, fe.freq_ptr + fe.freq_pos))

RECURSIVE ScanVol(_, _)
RECURSIVE ScanVolMarker(_, _, _, _)

\* a volume entry (count, signed delta) at vol_pos
ScanVolEntry(fe, count, delta) ==
    IF Raised(delta) THEN [fe EXCEPT !.vol_active = FALSE]
    ELSE [fe EXCEPT !.vol_delta = Signed8(delta), !.vol_frame_ctr = count,
                    !.vol_pos = fe.vol_pos + 2]

\* the byte count read at vol_pos
ScanVolAt(r, fe, count) ==
    IF Raised(count) THEN [fe EXCEPT !.vol_active = FALSE]
    ELSE IF count = \hFF
    THEN ScanVolMarker(r, fe,
                       read_byte(r, fe.vol_ptr + fe.vol_pos + 1),
                       read_byte(r, fe.vol_ptr + fe.vol_pos + 2))
    ELSE IF count = 0 THEN [fe EXCEPT !.vol_active = FALSE]
    ELSE ScanVolEntry(fe, count, read_byte(r, fe.vol_ptr + fe.vol_pos + 1))

\* a 0xFF loop marker at vol_pos: lc and back are the two bytes after it
ScanVolMarker(r, fe, lc, back) ==
    IF Raised(lc) THEN [fe EXCEPT !.vol_pos = 0]
    ELSE IF (IF fe.vol_loop_count = -1 THEN lc ELSE fe.vol_loop_count) <= 0
    THEN [fe EXCEPT !.vol_loop_count = IF @ = -1 THEN lc ELSE @,
                    !.vol_pos = 0]
    ELSE IF (IF fe.vol_loop_count = -1 THEN lc ELSE fe.vol_loop_count) - 1 > 0
    THEN IF Raised(back)
         THEN [fe EXCEPT !.vol_loop_count = (IF @ = -1 THEN lc ELSE @) - 1,
                         !.vol_pos = 0]
         ELSE ScanVol(r, [fe EXCEPT
                            !.vol_loop_count = (IF @ = -1 THEN lc ELSE @) - 1,
                            !.vol_pos = Max(0, @ - back)])
    ELSE ScanVol(r, [fe EXCEPT
                       !.vol_loop_count = (IF @ = -1 THEN lc ELSE @) - 1,
                       !.vol_pos = @ + 3])

\* the `while True` scan for the next volume-envelope entry
ScanVol(r, fe) == ScanVolAt(r, fe, read_byte(r, fe.vol_ptr + fe.vol_pos))

\* fe['freq_accum'] += fe['freq_delta'] without the clamp
AccumFreq_unclamped(fe) ==
    IF fe.freq_active
    THEN [fe EXCEPT !.freq_accum = @ + fe.freq_delta]
    ELSE fe

\* "if fe['freq_active']: fe['freq_accum'] += ...", clamped to 24 bits
AccumFreq(fe) ==
    IF fe.freq_active
    THEN [fe EXCEPT !.freq_accum =
             Max(0 - \h800000, Min(\h7FFFFF, @ + fe.freq_delta))]
    ELSE fe

\* "Step frequency envelope" of one frame
StepFreqEnv(r, fe) ==
    IF ~fe.freq_active THEN fe
    ELSE IF fe.freq_frame_ctr - 1 <= 0
    THEN AccumFreq(ScanFreq(r, [fe EXCEPT !.freq_frame_ctr = @ - 1]))
    ELSE AccumFreq([fe EXCEPT !.freq_frame_ctr = @ - 1])

\* "if fe['vol_active']: fe['vol_accum'] += ...", clamped to [-128, 127]
AccumVol(fe) ==
    IF fe.vol_active
    THEN [fe EXCEPT !.vol_accum = Max(-128, Min(127, @ + fe.vol_delta))]
    ELSE fe

\* "Step volume envelope" of one frame
StepVolEnv(r, fe) ==
    IF ~fe.vol_active THEN fe
    ELSE IF fe.vol_frame_ctr - 1 <= 0
    THEN AccumVol(ScanVol(r, [fe EXCEPT !.vol_frame_ctr = @ - 1]))
    ELSE AccumVol([fe EXCEPT !.vol_frame_ctr = @ - 1])

\* effective volume, AUDF and AUDC of a frame
EffVol(fe, base_vol) == Max(0, Min(15, (fe.vol_accum \div 8) + base_vol))
EffAudf(fe, base_audf) == (base_audf + ((fe.freq_accum \div 256) % 256)) % 256
EffAudc(fe, base_vol, dist) ==
    BitOr(EffVol(fe, base_vol), BitAnd(dist, \hF0))

\* the locals of the frame loop before its first pass: env_state,
\* actual_frames, silent_frames, the events appended, and whether the loop
\* was left by `break`
FrameStart(env_state) ==
    [env |-> env_state, actual |-> 0, silent |-> 0, evs |-> << >>,
     broke |-> FALSE]

\* FrameEmit with a silence count that an audible frame does not reset
FrameEmit_noreset(fe, k, s) ==
    [env |-> fe,
     actual |-> s.actual + 1,
     silent |-> IF k.stop_on_silence /\ EffVol(fe, k.base_vol) = 0
                THEN s.silent + 1 ELSE s.silent,
     evs |-> Append(s.evs,
                Event(RDivInt(RAdd(k.start_frame, RInt(s.actual)), FRAME_RATE),
                      "pokey_note_on",
                      << k.ch, EffAudf(fe, k.base_audf),
                         EffAudc(fe, k.base_vol, k.distortion) >>)),
     broke |-> /\ k.stop_on_silence /\ EffVol(fe, k.base_vol) = 0
               /\ s.silent + 1 >= MAX_SILENT]

\* the rest of a pass once both envelopes are stepped to fe: its event,
\* actual_frames and the silence count; frame = actual_frames before the pass
FrameEmit(fe, k, s) ==
    [env |-> fe,
     actual |-> s.actual + 1,
     silent |-> IF ~k.stop_on_silence THEN s.silent
                ELSE IF EffVol(fe, k.base_vol) = 0 THEN s.silent + 1
                ELSE 0,
     evs |-> Append(s.evs,
                Event(RDivInt(RAdd(k.start_frame, RInt(s.actual)), FRAME_RATE),
                      "pokey_note_on",
                      << k.ch, EffAudf(fe, k.base_audf),
                         EffAudc(fe, k.base_vol, k.distortion) >>)),
     broke |-> /\ k.stop_on_silence /\ EffVol(fe, k.base_vol) = 0
               /\ s.silent + 1 >= MAX_SILENT]

\* one pass of `for frame in range(num_frames)`
StepFrame(r, k, s) == FrameEmit(StepVolEnv(r, StepFreqEnv(r, s.env)), k, s)

RECURSIVE StepFrames(_, _, _, _)
\* n more passes of the frame loop unless it is left by `break`, as the
\* first half of the passes followed by the rest; k holds the arguments of
\* the call
StepFrames(r, k, s, n) ==
    IF n = 0 \/ s.broke THEN s
    ELSE IF n = 1 THEN StepFrame(r, k, s)
    ELSE StepFrames(r, k, StepFrames(r, k, s, n \div 2), n - n \div 2)

\* returns the stepped env_state (env), the events appended (evs) and
\* actual_frames (actual)
_step_pokey_envelopes(r, env_state, base_audf, base_vol, dist, ch_idx, start_frame, num_frames, stop_on_silence) ==
    StepFrames(r,
               [base_audf |-> base_audf, base_vol |-> base_vol,
                distortion |-> dist, ch |-> ch_idx,
                start_frame |-> start_frame, num_frames |-> num_frames,
                stop_on_silence |-> stop_on_silence],
               FrameStart(env_state), num_frames)

(***************************************************************************)
(* SequenceInterpreter._load_ym_voice                                      *)
(***************************************************************************)
\* register bases of the 24 operator bytes, slot order M1, M2, C1, C2
SlotBases ==
    << \h40, \h60, \h80, \hA0, \hC0, \hE0,
       \h50, \h70, \h90, \hB0, \hD0, \hF0,
       \h48, \h68, \h88, \hA8, \hC8, \hE8,
       \h58, \h78, \h98, \hB8, \hD8, \hF8 >>

RECURSIVE VoiceWrites(_, _, _, _)
\* the operator writes from the i-th on, val being the byte read at ptr;
\* a failed read ends the list
VoiceWritesAt(r, ch, ptr, i, val) ==
    IF Raised(val) THEN << >>
    ELSE << << SlotBases[i] + ch, val >> >> \o
         VoiceWrites(r, ch, ptr + 1, i + 1)

VoiceWrites(r, ch, ptr, i) ==
    IF i > Len(SlotBases) THEN << >>
    ELSE VoiceWritesAt(r, ch, ptr, i, read_byte(r, ptr))

\* the writes once fb_con is read at voice_ptr
VoiceFrom(r, ch, voice_ptr, fb_con) ==
    IF Raised(fb_con) THEN << >>
    ELSE << << \h20 + ch, BitOr(fb_con, \hC0) >> >> \o
         VoiceWrites(r, ch, voice_ptr + 1, 1)

\* list of (register, value)
_load_ym_voice(r, channel, voice_ptr) ==
    VoiceFrom(r, channel % 8, voice_ptr, read_byte(r, voice_ptr))

(***************************************************************************)
(* SequenceInterpreter._interpret_sequence                                 *)
(***************************************************************************)
\* ROM_BASE <= a <= ROM_END
InRomRange(a) == ROM_BASE <= a /\ a <= ROM_END

max_frames == RInt(max_seconds * FRAME_RATE)
pokey_ch_idx == channel_id % 4

\* OPCODES[byte0].arg_bytes
arg_bytes(b) ==
    IF b \in {\h86, \h87, \h8D, \h99, \h9D, \h9E, \h9F, \hA4, \hAE, \hAF}
    THEN 2
    ELSE IF b \in \hB5..\hB8 THEN 3 ELSE 1

RECURSIVE ArgsFrom(_, _, _)
\* the operand list once b is read at address a
ArgsAt(r, a, k, b) ==
    IF Raised(b) THEN << >>
    ELSE << b >> \o ArgsFrom(r, a + 1, k - 1)

\* the operand bytes read from address a on, up to the first failed read
ArgsFrom(r, a, k) ==
    IF k = 0 THEN << >>
    ELSE ArgsAt(r, a, k, read_byte(r, a))

\* the reads of one iteration; the actions bind each of them once
byte0 == read_byte(rom, pc)
byte1 == read_byte(rom, pc + 1)
args(b0) == ArgsFrom(rom, pc + 1, arg_bytes(b0))
\* args[0] | (args[1] << 8), and the same for args[1], args[2]
target01(a) == a[1] + 256 * a[2]
target12(a) == a[2] + 256 * a[3]

\* the loop is at the top of an iteration
AtTop    == status = "running" /\ icount < max_instructions
\* both loop-top checks passed: byte0 is fetched
Fetching_notime == AtTop /\ InRomRange(pc)
Fetching == /\ AtTop
            /\ ~RLt(max_frames, cumulative_frames)
            /\ InRomRange(pc)
\* byte0 was read and is an opcode 0x80..0xBA
IsOpcode(b0) == b0 >= \h80 /\ b0 <= \hBA
\* byte0 was read and is a note, a rest or the first byte of a CHAIN
IsNoteByte(b0) == b0 >= 0 /\ b0 <= \h7F

\* what every step leaves alone
Others == <<rom, rd_vars, res_vars, seq_in, dev_vars>>

\* `continue` at pc2, and `break` / falling out of the loop
Continue_uncounted(pc2) == pc' = pc2 /\ UNCHANGED <<icount, status, stop>>
Continue(pc2) == pc' = pc2 /\ icount' = icount + 1 /\ UNCHANGED <<status, stop>>
Return(why)   == status' = "returned" /\ stop' = why /\ UNCHANGED <<pc, icount>>
\* the events appended by this step
Emit(seq)     == emitted' = seq /\ events' = AppendAll(events, seq)

time_secs == RDivInt(cumulative_frames, FRAME_RATE)

\* ---- leaving the loop ----
\* range(max_instructions) is exhausted
LoopExhausted ==
    /\ status = "running" /\ icount = max_instructions
    /\ Return("max_instructions") /\ Emit(<< >>)
    /\ UNCHANGED <<Others, hw_mode, return_stack, loop_stack, seq_regs,
                   pokey_env, cumulative_frames>>

\* if cumulative_frames > max_frames: break
BreakTime_end ==
    /\ AtTop /\ RLt(max_frames, cumulative_frames)
    /\ Return("max_frames") /\ Emit(<< Event(time_secs, "end", << >>) >>)
    /\ UNCHANGED <<Others, hw_mode, return_stack, loop_stack, seq_regs,
                   pokey_env, cumulative_frames>>
BreakTime ==
    /\ AtTop /\ RLt(max_frames, cumulative_frames)
    /\ Return("max_frames") /\ Emit(<< >>)
    /\ UNCHANGED <<Others, hw_mode, return_stack, loop_stack, seq_regs,
                   pokey_env, cumulative_frames>>

\* if pc < ROM_BASE or pc > ROM_END: break
BreakPc ==
    /\ AtTop /\ ~RLt(max_frames, cumulative_frames) /\ ~InRomRange(pc)
    /\ Return("pc_range") /\ Emit(<< >>)
    /\ UNCHANGED <<Others, hw_mode, return_stack, loop_stack, seq_regs,
                   pokey_env, cumulative_frames>>

\* ---- note / rest ----
dur_idx(b1) == b1 % 16
dotted(b1)  == (b1 \div 64) % 2 = 1
sustain(b1) == b1 >= 128
base_dur(b1) ==
    IF dur_idx(b1) = 0 THEN 0
    ELSE read_word(rom, DURATION_TABLE_ADDR + dur_idx(b1) * 2)
\* bd is base_dur
dur_value(b1, bd) == IF dotted(b1) THEN Rat(3 * bd, 2) ELSE RInt(bd)
dur_frames(b1, bd) ==
    IF tempo > 0 /\ dur_value(b1, bd)[1] > 0
    THEN RDivInt(dur_value(b1, bd), tempo)
    ELSE RInt(0)
\* df is dur_frames
dur_secs(df) == RDivInt(df, FRAME_RATE)
\* effective_note without the replacement of 0 by 1
effective_note_zero(b0) == (b0 + transpose) % 128
\* effective_note = (note + transpose) & 0x7F; 0 is replaced by 1
effective_note(b0) ==
    IF (b0 + transpose) % 128 = 0 THEN 1 ELSE (b0 + transpose) % 128
freq_word(b0) == read_word(rom, FREQ_TABLE_ADDR + effective_note(b0) * 2)
\* fw is freq_word as read from the table
base_audf(fw) == ((fw + freq_offset) % 65536) % 256
has_env   == pokey_env.freq_active \/ pokey_env.vol_active
on_pokey  == hw_mode = "POKEY" /\ has_pokey
on_ym     == hw_mode = "YM2151" /\ has_ym

\* an uncaught ValueError of rom.read_byte / rom.read_word in this iteration
Raises(b0, b1) ==
    \/ Raised(b0)
    \/ /\ IsNoteByte(b0)
       /\ \/ Raised(b1)
          \/ /\ b1 # 0
             /\ \/ Raised(base_dur(b1))
                \/ b0 # 0 /\ on_pokey /\ Raised(freq_word(b0))

StepRaise ==
    /\ Fetching
    /\ \E b0 \in {byte0} : \E b1 \in {byte1} : Raises(b0, b1)
    /\ status' = "raised" /\ stop' = "ValueError" /\ Emit(<< >>)
    /\ UNCHANGED <<Others, pc, icount, hw_mode, return_stack, loop_stack,
                   seq_regs, pokey_env, cumulative_frames>>

\* byte0 >= 0xBB: the `end` event, break
StepEnd_continue ==
    /\ Fetching /\ byte0 >= \hBB
    /\ Emit(<< Event(time_secs, "end", << >>) >>)
    /\ Continue(pc + 1)
    /\ UNCHANGED <<Others, hw_mode, return_stack, loop_stack, seq_regs,
                   pokey_env, cumulative_frames>>
StepEnd ==
    /\ Fetching /\ byte0 >= \hBB
    /\ Emit(<< Event(time_secs, "end", << >>) >>)
    /\ Return("end")
    /\ UNCHANGED <<Others, hw_mode, return_stack, loop_stack, seq_regs,
                   pokey_env, cumulative_frames>>

\* note byte followed by 0x00: pop the return stack, or `end` and break
StepChain_fifo ==
    /\ Fetching /\ IsNoteByte(byte0) /\ byte1 = 0
    /\ IF return_stack # << >>
       THEN /\ Continue(return_stack[1])
            /\ return_stack' = Tail(return_stack)
            /\ Emit(<< >>)
       ELSE /\ Emit(<< Event(time_secs, "end", << >>) >>)
            /\ Return("end")
            /\ UNCHANGED return_stack
    /\ UNCHANGED <<Others, hw_mode, loop_stack, seq_regs, pokey_env,
                   cumulative_frames>>
StepChain ==
    /\ Fetching /\ IsNoteByte(byte0) /\ byte1 = 0
    /\ IF return_stack # << >>
       THEN /\ Continue(return_stack[Len(return_stack)])
            /\ return_stack' = SubSeq(return_stack, 1, Len(return_stack) - 1)
            /\ Emit(<< >>)
       ELSE /\ Emit(<< Event(time_secs, "end", << >>) >>)
            /\ Return("end")
            /\ UNCHANGED return_stack
    /\ UNCHANGED <<Others, hw_mode, loop_stack, seq_regs, pokey_env,
                   cumulative_frames>>

\* the YM2151 key code of effective_note
ym_notes == << 0, 1, 2, 4, 5, 6, 8, 9, 10, 12, 13, 14 >>
key_code(b0) ==
    Max(0, Min(7, (effective_note(b0) - 1) \div 12)) * 16
    + ym_notes[((effective_note(b0) - 1) % 12) + 1]

\* the events of a note on POKEY with a running envelope: res is the result
\* of _step_pokey_envelopes over note_frames frames
EnvNoteEvents(b1, note_frames, res) ==
    res.evs \o
    (IF ~sustain(b1)
     THEN << Event(RDivInt(RAdd(cumulative_frames, RInt(note_frames)),
                           FRAME_RATE),
                   "pokey_note_off", << pokey_ch_idx >>) >>
     ELSE << >>)

\* the events of a note on POKEY without envelope
PlainNoteEvents(b1, df, fw) ==
    << Event(time_secs, "pokey_note_on",
             << pokey_ch_idx, base_audf(fw),
                BitOr(volume % 16, BitAnd(distortion, \hF0)) >>) >> \o
    (IF ~sustain(b1)
     THEN << Event(RAdd(time_secs, dur_secs(df)), "pokey_note_off",
                   << pokey_ch_idx >>) >>
     ELSE << >>)

\* the note branch on POKEY, fw being the frequency word read
PokeyNote(b1, df, fw) ==
    /\ ~Raised(fw)
    /\ IF has_env
       THEN \E res \in {_step_pokey_envelopes(rom, pokey_env, base_audf(fw),
                           volume, distortion, pokey_ch_idx,
                           cumulative_frames, Max(1, RFloor(df)), FALSE)} :
               /\ pokey_env' = res.env
               /\ Emit(EnvNoteEvents(b1, Max(1, RFloor(df)), res))
       ELSE /\ Emit(PlainNoteEvents(b1, df, fw))
            /\ UNCHANGED pokey_env

\* a note of byte0 = b0, duration byte b1, lasting df = dur_frames
Note(b0, b1, df) ==
    /\ IF on_pokey
       THEN PokeyNote(b1, df, freq_word(b0))
       ELSE IF on_ym
       THEN /\ Emit(<< Event(time_secs, "ym_note_on",
                             << channel_id, key_code(b0), volume >>),
                       Event(RAdd(time_secs, dur_secs(df)), "ym_note_off",
                             << channel_id >>) >>)
            /\ UNCHANGED pokey_env
       ELSE Emit(<< >>) /\ UNCHANGED pokey_env
    /\ cumulative_frames' = RAdd(cumulative_frames, df)

\* byte0 in 0x01..0x7F with a non-zero duration byte
StepNote ==
    /\ Fetching
    /\ \E b0 \in {byte0} : \E b1 \in {byte1} :
          /\ IsNoteByte(b0) /\ b0 # 0 /\ b1 > 0
          /\ \E bd \in {base_dur(b1)} :
                ~Raised(bd) /\ Note(b0, b1, dur_frames(b1, bd))
    /\ Continue(pc + 2)
    /\ UNCHANGED <<Others, hw_mode, return_stack, loop_stack, seq_regs>>

\* the rest branch on POKEY with a running envelope: res is the result of
\* _step_pokey_envelopes, note_frames the frames asked for
EnvRest(df, note_frames, res) ==
    /\ pokey_env' = res.env
    /\ Emit(res.evs)
    /\ cumulative_frames' =
          RAdd(cumulative_frames,
               RMax(df, RInt(IF RLt(df, RInt(1)) THEN res.actual
                             ELSE note_frames)))

\* a rest lasting df = dur_frames
Rest(df) ==
    IF on_pokey /\ has_env
    THEN \E note_frames \in {IF RLt(df, RInt(1)) THEN SILENCE_FRAMES
                             ELSE Max(1, RFloor(df))} :
            EnvRest(df, note_frames,
                    _step_pokey_envelopes(rom, pokey_env, 0, volume,
                        distortion, pokey_ch_idx, cumulative_frames,
                        note_frames, RLt(df, RInt(1))))
    ELSE IF on_pokey
    THEN /\ Emit(<< Event(time_secs, "pokey_note_off",
                          << pokey_ch_idx >>) >>)
         /\ cumulative_frames' = RAdd(cumulative_frames, df)
         /\ UNCHANGED pokey_env
    ELSE /\ Emit(<< >>)
         /\ cumulative_frames' = RAdd(cumulative_frames, df)
         /\ UNCHANGED pokey_env

\* byte0 = 0 with a non-zero duration byte
StepRest ==
    /\ Fetching /\ byte0 = 0
    /\ \E b1 \in {byte1} :
          /\ b1 > 0
          /\ \E bd \in {base_dur(b1)} :
                ~Raised(bd) /\ Rest(dur_frames(b1, bd))
    /\ Continue(pc + 2)
    /\ UNCHANGED <<Others, hw_mode, return_stack, loop_stack, seq_regs>>

\* ---- opcodes 0x80..0xBA ----
\* the fall-through at the end of the loop body
NextInstr(b0) == Continue(pc + 1 + arg_bytes(b0))

\* SET_TEMPO, ADD_TEMPO, SET_VOLUME(_CHK), ADD_TRANSPOSE, SET_REPEAT,
\* SET_DISTORTION, FREQ_OFFSET, FREQ_ADD
ScalarOps == {\h80, \h81, \h82, \h83, \h84, \h89, \h8A, \hA0, \hA7}

StepScalar ==
    /\ Fetching
    /\ \E b0 \in {byte0} : \E a \in {args(b0)} :
        /\ b0 \in ScalarOps /\ Len(a) >= 1
        /\ tempo' = IF b0 = \h80 THEN a[1] \div 4
                    ELSE IF b0 = \h81 THEN (tempo + a[1]) % 256
                    ELSE tempo
        /\ volume' = IF b0 \in {\h82, \h83} THEN a[1] ELSE volume
        /\ transpose' = IF b0 = \h84
                        THEN (transpose + Signed8(a[1])) % 128
                        ELSE transpose
        /\ repeat_count' = IF b0 = \h89 THEN a[1] ELSE repeat_count
        /\ distortion' = IF b0 = \h8A THEN a[1] ELSE distortion
        /\ freq_offset' = IF b0 = \hA0 THEN Signed8(a[1])
                          ELSE IF b0 = \hA7
                          THEN (freq_offset + Signed8(a[1])) % 65536
                          ELSE freq_offset
        /\ NextInstr(b0)
    /\ Emit(<< >>)
    /\ UNCHANGED <<Others, hw_mode, return_stack, loop_stack, ctrl_bits,
                   variables, var_reg, pokey_env, cumulative_frames>>

\* SET_FREQ_ENV (0x86), SET_VOL_ENV (0x87)
StepSetEnv ==
    /\ Fetching
    /\ \E b0 \in {byte0} : \E a \in {args(b0)} :
        /\ b0 \in {\h86, \h87} /\ Len(a) >= 2
        /\ pokey_env' =
              IF b0 = \h86
              THEN [pokey_env EXCEPT
                      !.freq_active = TRUE, !.freq_ptr = target01(a),
                      !.freq_pos = 0, !.freq_frame_ctr = 1, !.freq_delta = 0,
                      !.freq_accum = 0, !.freq_loop_count = -1]
              ELSE [pokey_env EXCEPT
                      !.vol_active = TRUE, !.vol_ptr = target01(a),
                      !.vol_pos = 0, !.vol_frame_ctr = 1, !.vol_delta = 0,
                      !.vol_accum = 0, !.vol_loop_count = -1]
        /\ NextInstr(b0)
    /\ Emit(<< >>)
    /\ UNCHANGED <<Others, hw_mode, return_stack, loop_stack, seq_regs,
                   cumulative_frames>>

\* RESET_ENVELOPE (0x97)
StepResetEnv ==
    /\ Fetching /\ byte0 = \h97
    /\ pokey_env' = [pokey_env EXCEPT
                       !.freq_active = FALSE, !.freq_accum = 0,
                       !.vol_active = FALSE, !.vol_accum = 0]
    /\ NextInstr(\h97) /\ Emit(<< >>)
    /\ UNCHANGED <<Others, hw_mode, return_stack, loop_stack, seq_regs,
                   cumulative_frames>>

\* SET_CTRL_BITS (0x8B), CLR_CTRL_BITS (0x8C)
StepCtrlBits ==
    /\ Fetching
    /\ \E b0 \in {byte0} : \E a \in {args(b0)} :
        /\ b0 \in {\h8B, \h8C} /\ Len(a) >= 1
        /\ ctrl_bits' = IF b0 = \h8B THEN BitOr(ctrl_bits, a[1])
                        ELSE BitAndNot(ctrl_bits, a[1])
        /\ NextInstr(b0)
    /\ IF hw_mode = "POKEY"
       THEN Emit(<< Event(time_secs, "pokey_audctl",
                          << ctrl_bits' % 256 >>) >>)
       ELSE Emit(<< >>)
    /\ UNCHANGED <<Others, hw_mode, return_stack, loop_stack, tempo, volume,
                   transpose, freq_offset, distortion, repeat_count,
                   variables, var_reg, pokey_env, cumulative_frames>>

\* PUSH_SEQ (0x8D): call, or skip a target outside the ROM
StepPushSeq ==
    /\ Fetching /\ byte0 = \h8D
    /\ \E a \in {args(\h8D)} :
        /\ Len(a) >= 2
        /\ IF InRomRange(target01(a))
           THEN /\ return_stack' = Append(return_stack, pc + 3)
                /\ Continue(target01(a))
           ELSE /\ UNCHANGED return_stack
                /\ Continue(pc + 3)
    /\ Emit(<< >>)
    /\ UNCHANGED <<Others, hw_mode, loop_stack, seq_regs, pokey_env,
                   cumulative_frames>>

\* PUSH_SEQ_EXT (0x8E): open a counted loop
StepPushSeqExt ==
    /\ Fetching /\ byte0 = \h8E
    /\ \E a \in {args(\h8E)} :
        /\ Len(a) >= 1
        /\ loop_stack' = IF a[1] > 1
                         THEN Append(loop_stack, << pc + 2, a[1] >>)
                         ELSE loop_stack
    /\ NextInstr(\h8E) /\ Emit(<< >>)
    /\ UNCHANGED <<Others, hw_mode, return_stack, seq_regs, pokey_env,
                   cumulative_frames>>

\* POP_SEQ (0x8F): close a counted loop
StepPopSeq ==
    /\ Fetching /\ byte0 = \h8F
    /\ IF loop_stack # << >>
       THEN \E top \in {loop_stack[Len(loop_stack)]} :
            IF top[2] - 1 > 0
            THEN /\ loop_stack' = [loop_stack EXCEPT
                                     ![Len(loop_stack)] = << top[1], top[2] - 1 >>]
                 /\ Continue(top[1])
            ELSE /\ loop_stack' = SubSeq(loop_stack, 1, Len(loop_stack) - 1)
                 /\ NextInstr(\h8F)
       ELSE UNCHANGED loop_stack /\ NextInstr(\h8F)
    /\ Emit(<< >>)
    /\ UNCHANGED <<Others, hw_mode, return_stack, seq_regs, pokey_env,
                   cumulative_frames>>

\* SWITCH_POKEY (0x90), SWITCH_YM2151 (0x91), FORCE_POKEY (0x9C)
StepSwitch ==
    /\ Fetching
    /\ \E b0 \in {byte0} :
        /\ b0 \in {\h90, \h91, \h9C}
        /\ hw_mode' = IF b0 = \h91 THEN "YM2151" ELSE "POKEY"
        /\ NextInstr(b0)
    /\ Emit(<< >>)
    /\ UNCHANGED <<Others, return_stack, loop_stack, seq_regs, pokey_env,
                   cumulative_frames>>

\* SET_SEQ_PTR (0x99): jump, or break on a target outside the ROM
StepSetSeqPtr ==
    /\ Fetching /\ byte0 = \h99
    /\ \E a \in {args(\h99)} :
        /\ Len(a) >= 2
        /\ IF InRomRange(target01(a))
           THEN Continue(target01(a))
           ELSE Return("jump_range")
    /\ Emit(<< >>)
    /\ UNCHANGED <<Others, hw_mode, return_stack, loop_stack, seq_regs,
                   pokey_env, cumulative_frames>>

RECURSIVE RegWrites(_, _, _)
\* the ym_reg_write events of writes[i..] at time t
RegWrites(t, writes, i) ==
    IF i > Len(writes) THEN << >>
    ELSE << Event(t, "ym_reg_write", writes[i]) >> \o
         RegWrites(t, writes, i + 1)

\* SET_VOICE (0x9D)
StepSetVoice ==
    /\ Fetching /\ byte0 = \h9D
    /\ \E a \in {args(\h9D)} :
        /\ Len(a) >= 2
        /\ IF hw_mode = "YM2151"
           THEN Emit(RegWrites(time_secs,
                        _load_ym_voice(rom, channel_id, target01(a)), 1))
           ELSE Emit(<< >>)
    /\ NextInstr(\h9D)
    /\ UNCHANGED <<Others, hw_mode, return_stack, loop_stack, seq_regs,
                   pokey_env, cumulative_frames>>

\* YM_LOAD_REG (0x9F)
StepYmLoadReg ==
    /\ Fetching /\ byte0 = \h9F
    /\ \E a \in {args(\h9F)} :
        /\ Len(a) >= 2
        /\ IF hw_mode = "YM2151"
           THEN Emit(<< Event(time_secs, "ym_reg_write",
                              << a[1], a[2] >>) >>)
           ELSE Emit(<< >>)
    /\ NextInstr(\h9F)
    /\ UNCHANGED <<Others, hw_mode, return_stack, loop_stack, seq_regs,
                   pokey_env, cumulative_frames>>

\* VAR_LOAD (0xA4), VAR_ADD (0xA9), VAR_SUB (0xAA)
StepVar ==
    /\ Fetching
    /\ \E b0 \in {byte0} : \E a \in {args(b0)} :
        /\ \/ b0 = \hA4 /\ Len(a) >= 2
           \/ b0 \in {\hA9, \hAA} /\ Len(a) >= 1
        /\ var_reg' = IF b0 = \hA4 THEN a[1] ELSE var_reg
        /\ variables' =
              IF var_reg' >= 8 THEN variables
              ELSE IF b0 = \hA4
              THEN [variables EXCEPT ![var_reg'] = a[2]]
              ELSE IF b0 = \hA9
              THEN [variables EXCEPT ![var_reg] = (@ + a[1]) % 256]
              ELSE [variables EXCEPT ![var_reg] = (@ - a[1]) % 256]
        /\ NextInstr(b0)
    /\ Emit(<< >>)
    /\ UNCHANGED <<Others, hw_mode, return_stack, loop_stack, tempo, volume,
                   transpose, freq_offset, distortion, ctrl_bits,
                   repeat_count, pokey_env, cumulative_frames>>

\* the variable a conditional jump tests, and its target
JumpIdx(b0, a) == IF b0 \in {\hAE, \hAF} THEN var_reg ELSE a[1]
JumpTarget(b0, a) == IF b0 \in {\hAE, \hAF} THEN target01(a) ELSE target12(a)
\* the test of a conditional jump on the variables vs
JumpTest(b0, idx, vs) ==
    /\ idx < 8
    /\ CASE b0 \in {\hAE, \hAF, \hB5} -> vs[idx] = 0
         [] b0 = \hB6 -> vs[idx] # 0
         [] b0 = \hB7 -> vs[idx] < 128
         [] b0 = \hB8 -> vs[idx] >= 128

\* COND_JUMP (0xAE), COND_JUMP_INC (0xAF), COND_JUMP_EQ/NE/PL/MI (0xB5..0xB8)
StepCondJump ==
    /\ Fetching
    /\ \E b0 \in {byte0} : \E a \in {args(b0)} :
        /\ \/ b0 \in {\hAE, \hAF} /\ Len(a) >= 2
           \/ b0 \in \hB5..\hB8 /\ Len(a) >= 3
        /\ variables' =
              IF b0 = \hAF /\ var_reg < 8
              THEN [variables EXCEPT ![var_reg] = (@ + 1) % 256]
              ELSE variables
        /\ IF JumpTest(b0, JumpIdx(b0, a), variables')
              /\ InRomRange(JumpTarget(b0, a))
           THEN Continue(JumpTarget(b0, a))
           ELSE NextInstr(b0)
    /\ Emit(<< >>)
    /\ UNCHANGED <<Others, hw_mode, return_stack, loop_stack, tempo, volume,
                   transpose, freq_offset, distortion, ctrl_bits,
                   repeat_count, var_reg, pokey_env, cumulative_frames>>

\* the opcode has a branch of the dispatch chain and enough operand bytes
Dispatched(b0, a) ==
    \/ b0 \in ScalarOps \cup {\h8B, \h8C, \h8E, \hA9, \hAA} /\ Len(a) >= 1
    \/ b0 \in {\h86, \h87, \h8D, \h99, \h9D, \h9F, \hA4, \hAE, \hAF}
       /\ Len(a) >= 2
    \/ b0 \in \hB5..\hB8 /\ Len(a) >= 3
    \/ b0 \in {\h8F, \h90, \h91, \h97, \h9C}

\* every other opcode, YM_LOAD_ENV (`pass`), and an opcode whose operand
\* bytes are cut off by the end of the ROM: only pc moves
StepNoEffect ==
    /\ Fetching
    /\ \E b0 \in {byte0} :
        /\ IsOpcode(b0) /\ ~Dispatched(b0, args(b0))
        /\ NextInstr(b0)
    /\ Emit(<< >>)
    /\ UNCHANGED <<Others, hw_mode, return_stack, loop_stack, seq_regs,
                   pokey_env, cumulative_frames>>

\* ---- the calls made ----
\* image and start address of the streams that end within a few hundred
\* instructions
Entries ==
    { << "main", a >> : a \in {\h7000, \h7200, \h7300, \h7500,
                               \hFFFE, \hFFFF, \h3000,
                               \h7600, \h7640, \h7660, \h7680, \h76A0,
                               \h76C0, \h76E0, \h7700, \h7740, \h7760} } \cup
    { << "notes", \hFFF0 >>, << "notes", \hFFF1 >>,
      << "short", \h5EFF >>, << "short", \h5F00 >> }
ChannelIds == {1, 5}
\* max_seconds: 30.0 by default, 300.0 for music
MaxSecondsChoices == {30, 300}
\* (image, start_addr, channel_id, max_seconds) of a call; the stream at
\* $7400 jumps to itself and runs until the instruction cap; two calls use
\* channel ids above $0B
Calls ==
    { << e[1], e[2], c, m >> :
        e \in Entries, c \in ChannelIds, m \in MaxSecondsChoices } \cup
    { << "main", \h7400, 5, 30 >>,
      << "main", \h7300, \h0C, 30 >>, << "main", \h7000, \h0E, 30 >> }

Init ==
    /\ ReadIdle /\ ResolveIdle /\ DevIdle
    /\ \E c \in Calls :
          /\ rom = c[1] /\ start_addr = c[2]
          /\ channel_id = c[3] /\ max_seconds = c[4]
    /\ has_pokey \in BOOLEAN /\ has_ym = ~has_pokey
    /\ hw_mode = IF channel_id >= 4 THEN "YM2151" ELSE "POKEY"
    /\ status = "running" /\ stop = "none"
    /\ InterpLocals(start_addr)

Next ==
    \/ LoopExhausted \/ BreakTime \/ BreakPc \/ StepRaise
    \/ StepEnd \/ StepChain \/ StepNote \/ StepRest
    \/ StepScalar \/ StepSetEnv \/ StepResetEnv \/ StepCtrlBits
    \/ StepPushSeq \/ StepPushSeqExt \/ StepPopSeq \/ StepSwitch
    \/ StepSetSeqPtr \/ StepSetVoice \/ StepYmLoadReg
    \/ StepVar \/ StepCondJump \/ StepNoEffect

Spec == Init /\ [][Next]_vars

(***************************************************************************)
(* Properties of _interpret_sequence                                       *)
(***************************************************************************)
\* C1 (as stated): the events of one voice are appended in nondecreasing
\* time order: no event is earlier than the event appended before it.
C1_TimeOrdered == events.ordered

\* C2: the loop terminates: steps are only taken while it runs, every step
\* either leaves the loop or is one more instruction, counted by icount,
\* of at most 50 000, and an instruction is only started while the
\* accumulated frame time does not exceed max_seconds x 120.
C2_Terminates ==
    /\ [](icount <= max_instructions)
    /\ [][/\ status = "running"
          /\ \/ status' # "running"
             \/ /\ icount' = icount + 1
                /\ ~RLt(max_frames, cumulative_frames)]_vars

\* a stream that jumps back into itself, stopped by the instruction cap
C2_Witness ==
    /\ stop = "max_instructions" /\ icount = max_instructions
    /\ pc = start_addr

\* C3 (as stated): on a 48 KiB image _interpret_sequence never raises.
C3_NeverRaises == DataLen(rom) = ROM_SIZE => status # "raised"

\* C4: the trace holds at most one `end` event, and when it holds one it is
\* the last event and the loop was left by it.
C4_OneEnd ==
    /\ events.ends <= 1
    /\ events.ends = 1 =>
          events.last = "end" /\ status = "returned" /\ stop = "end"

\* a trace of several events closed by `end`
C4_Witness == events.ends = 1 /\ events.n > 1 /\ events.last = "end"

\* C5 (as stated): the trace holds at most 50 000 events.
C5_Original == events.n <= max_instructions

\* C5 (amended): the cap bounds instructions, not events: the events of the
\* trace come from at most 50 000 instructions, the ones executed, and one
\* instruction may append several events.
C5_InstructionEvents ==
    /\ events.batches <= max_instructions
    /\ events.batches <= icount + 1

\* more than 50 000 events appended by fewer than 50 000 instructions
C5_Witness == events.n > max_instructions /\ icount < max_instructions

\* the loop was left because a cap was exceeded
CapStop == stop \in {"max_instructions", "max_frames"}

\* C6 (as stated): a trace cut off by the instruction cap or the frame cap
\* is closed by an `end` event.
C6_Original == CapStop => events.last = "end"

\* C6 (amended): a stop by the instruction cap or the frame cap appends
\* nothing: the trace is returned as it is and holds no `end` event.
C6_CapAppendsNothing == CapStop => emitted = << >> /\ events.ends = 0

\* a non-empty trace cut off by the frame cap, its last event not an `end`
C6_Witness == stop = "max_frames" /\ events.n > 0 /\ events.last # "end"

\* ---- sub-segment calls ----
\* the instruction at pc is a PUSH_SEQ whose target was read
AtPushSeq == Fetching /\ byte0 = \h8D /\ Len(args(\h8D)) >= 2
\* the instruction at pc is a CHAIN
AtChain == Fetching /\ IsNoteByte(byte0) /\ byte1 = 0

\* C21: PUSH_SEQ at pc with a target inside the ROM appends pc + 3 to the
\* return stack and continues at the target; with a target outside the ROM
\* it leaves the stack alone and continues at pc + 3; a CHAIN removes the
\* last address appended and continues there; a CHAIN on an empty stack
\* appends `end` and leaves the loop.
C21_CallReturn ==
    [][/\ AtPushSeq /\ InRomRange(target01(args(\h8D))) =>
            /\ return_stack' = Append(return_stack, pc + 3)
            /\ pc' = target01(args(\h8D)) /\ status' = "running"
       /\ AtPushSeq /\ ~InRomRange(target01(args(\h8D))) =>
            /\ return_stack' = return_stack
            /\ pc' = pc + 3 /\ status' = "running"
       /\ AtChain /\ return_stack # << >> =>
            /\ pc' = return_stack[Len(return_stack)]
            /\ return_stack' = SubSeq(return_stack, 1, Len(return_stack) - 1)
            /\ emitted' = << >> /\ status' = "running"
       /\ AtChain /\ return_stack = << >> =>
            /\ emitted' = << Event(time_secs, "end", << >>) >>
            /\ status' = "returned" /\ stop' = "end"]_vars

\* the CHAIN of the inner sub-segment of $7600 has returned into the outer
\* one, whose own return address is still on the stack
C21_Witness ==
    /\ start_addr = \h7600 /\ pc = \h7613
    /\ return_stack = << \h7605 >> /\ icount = 5

\* ---- counted loops ----
\* the streams built of notes and counted loops only
LoopStreams == {\h7640, \h7660, \h7680, \h7700}

RECURSIVE LoopBody(_, _)
\* the instructions from address a to the POP_SEQ or END that closes them,
\* read as the text of a counted loop: at is the address of that POP_SEQ or
\* END, frames the time taken when every PUSH_SEQ_EXT N ... POP_SEQ in
\* between stands for max(N, 1) runs of its body; b0 is the byte at a
LoopBody(a, b0) ==
    IF b0 < 0 \/ b0 >= \hBB \/ b0 = \h8F THEN [frames |-> RInt(0), at |-> a]
    ELSE IF b0 = \h8E
    THEN LET n     == read_byte(rom, a + 1)
             body  == LoopBody(a + 2, read_byte(rom, a + 2))
             after == LoopBody(body.at + 2, read_byte(rom, body.at + 2))
         IN [frames |-> RAdd(RMulInt(body.frames, Max(n, 1)), after.frames),
             at     |-> after.at]
    ELSE IF IsNoteByte(b0)
    THEN LET b1   == read_byte(rom, a + 1)
             rest == LoopBody(a + 2, read_byte(rom, a + 2))
         IN [frames |-> RAdd(dur_frames(b1, base_dur(b1)), rest.frames),
             at     |-> rest.at]
    ELSE LoopBody(a + 1 + arg_bytes(b0), read_byte(rom, a + 1 + arg_bytes(b0)))

\* C22 (as stated): PUSH_SEQ_EXT N, a body and its POP_SEQ run the body N
\* times when N > 1 and once when N <= 1, nested or not: a stream of notes
\* and counted loops that has reached its END has taken the time of its
\* notes, each counted as often as the loops around it say.  A POP_SEQ on an
\* empty loop stack changes nothing but pc.
C22_CountedLoop ==
    /\ [](stop = "end" /\ start_addr \in LoopStreams =>
             cumulative_frames =
                LoopBody(start_addr + 2, read_byte(rom, start_addr + 2)).frames)
    /\ [][Fetching /\ byte0 = \h8F /\ loop_stack = << >> =>
             pc' = pc + 2 /\ loop_stack' = << >> /\ emitted' = << >>]_vars

\* C23 (as stated): the return stack never holds more than 16 addresses,
\* whatever the stream.
C23_StackBounded == Len(return_stack) <= 16

\* ---- notes ----
\* the instruction at pc is a note whose duration was read
AtNote ==
    /\ Fetching /\ IsNoteByte(byte0) /\ byte0 # 0 /\ byte1 > 0
    /\ ~Raised(base_dur(byte1))
IsNoteOff(e) == e.kind \in {"pokey_note_off", "ym_note_off"}
\* the note-off events among the events seq
NoteOffs(seq) == {i \in 1..Len(seq) : IsNoteOff(seq[i])}

\* C24 (as stated): a note played on either chip appends a note-off event at
\* t + dur_secs when bit 7 of its duration byte is clear, and no note-off
\* event when the bit is set.
C24_NoteOffIffNotSustained ==
    [][AtNote /\ (on_pokey \/ on_ym) /\ status' = "running" =>
          IF sustain(byte1)
          THEN NoteOffs(emitted') = {}
          ELSE /\ Cardinality(NoteOffs(emitted')) = 1
               /\ \A i \in NoteOffs(emitted') :
                     emitted'[i].t =
                        RAdd(time_secs,
                             dur_secs(dur_frames(byte1, base_dur(byte1))))]_vars

\* ---- variables ----
\* the result on the byte v of the operation OPCODES names for b0 in
\* 0xA9..0xAD (VAR_ADD, VAR_SUB, VAR_AND, VAR_OR, VAR_XOR) with operand x
VarOp(b0, v, x) ==
    CASE b0 = \hA9 -> (v + x) % 256
      [] b0 = \hAA -> (v - x) % 256
      [] b0 = \hAB -> BitAnd(v, x)
      [] b0 = \hAC -> BitOr(v, x)
      [] b0 = \hAD -> BitOr(v, x) - BitAnd(v, x)

\* C25 (as stated): an opcode 0xA9..0xAD replaces the selected variable by
\* its sum, difference, AND, OR or XOR (mod 256) with the operand byte, and
\* COND_JUMP / COND_JUMP_INC branch exactly when the selected variable (for
\* COND_JUMP_INC after its increment) is 0 and the target lies in the ROM.
C25_VarOps ==
    [][/\ Fetching /\ byte0 \in \hA9..\hAD /\ Len(args(byte0)) >= 1
          /\ var_reg < 8 =>
             /\ variables' = [variables EXCEPT
                   ![var_reg] = VarOp(byte0, @, args(byte0)[1])]
             /\ pc' = pc + 2
       /\ Fetching /\ byte0 \in {\hAE, \hAF} /\ Len(args(byte0)) >= 2
          /\ var_reg < 8 =>
             /\ variables'[var_reg] =
                   IF byte0 = \hAF THEN (variables[var_reg] + 1) % 256
                   ELSE variables[var_reg]
             /\ pc' = IF variables'[var_reg] = 0
                         /\ InRomRange(target01(args(byte0)))
                      THEN target01(args(byte0)) ELSE pc + 3]_vars

\* ---- the divider of a polychip note ----
\* the low byte of frequency table word idx plus freq_offset
Divider(idx) ==
    ((read_word(rom, FREQ_TABLE_ADDR + idx * 2) + freq_offset) % 65536) % 256
\* the pokey_note_on events among the events seq, and the last of them
NoteOns(seq) == {i \in 1..Len(seq) : seq[i].kind = "pokey_note_on"}
LastNoteOn(seq) == CHOOSE i \in NoteOns(seq) : \A j \in NoteOns(seq) : j <= i
\* the polychip note appended by this step was written with base divider d:
\* without envelope d is the AUDF of its event; under an envelope the AUDF of
\* a frame is d plus the frequency accumulator's high bytes, and the last
\* frame is the one pokey_env is left at
WrittenWith(d) ==
    /\ NoteOns(emitted') # {}
    /\ emitted'[LastNoteOn(emitted')].data[2] =
          IF has_env THEN EffAudf(pokey_env', d) ELSE d

\* C26 (as stated): every polychip note is written with the low byte of
\* freq_table[(note + transpose) mod 128] + freq_offset as its divider.
C26_Original ==
    [][AtNote /\ on_pokey /\ status' = "running" =>
          WrittenWith(Divider((byte0 + transpose) % 128))]_vars

\* C26 (amended): the index is (note + transpose) mod 128, except that 1 is
\* used when that is 0.
C26_Divider ==
    [][AtNote /\ on_pokey /\ status' = "running" =>
          WrittenWith(Divider(IF (byte0 + transpose) % 128 = 0 THEN 1
                              ELSE (byte0 + transpose) % 128))]_vars

\* the note $30 of $76E0 was played under transpose $50, index 0, with the
\* divider of table entry 1 (259 = $0103)
C26_Witness ==
    /\ start_addr = \h76E0 /\ on_pokey /\ pc = \h76E6
    /\ emitted # << >> /\ emitted[1].data[2] = 3

\* ---- FM voices ----
\* the register writes _render_ym_events makes for the event e
YmEventWrites(e) ==
    CASE e.kind = "ym_reg_write" -> << e.data >>
      [] e.kind = "ym_note_on" ->
            << << \h28 + (e.data[1] % 8), e.data[2] >>,
               << \h08, BitOr(\h78, e.data[1] % 8) >> >>
      [] e.kind = "ym_note_off" -> << << \h08, e.data[1] % 8 >> >>
      [] OTHER -> << >>

\* the FM voice a register write addresses: the low three bits of a
\* per-channel register (0x20..0xFF), or of the value of a key write to 0x08
VoiceOf(w) == IF w[1] = \h08 THEN w[2] % 8 ELSE w[1] % 8

\* C27 (as stated): channel ids 0..3 start on the polychip and ids >= 4 on
\* the FM chip; with a channel id >= 0x0C every register write of SET_VOICE
\* and every key write of a note-on or note-off addresses FM voice 7.
C27_HighIdsVoiceSeven ==
    /\ hw_mode = IF channel_id >= 4 THEN "YM2151" ELSE "POKEY"
    /\ [][channel_id >= \h0C /\ on_ym
          /\ (byte0 = \h9D \/ AtNote) =>
             \A i \in 1..Len(emitted') :
                \A k \in 1..Len(YmEventWrites(emitted'[i])) :
                   VoiceOf(YmEventWrites(emitted'[i])[k]) = 7]_vars

\* ---- envelope frames ----
RECURSIVE EnvAfter(_, _, _)
\* env_state after n frame steps (both envelopes stepped once per frame);
\* a state with neither envelope active is left as it is by a step
EnvAfter(r, fe, n) ==
    IF n = 0 \/ (~fe.freq_active /\ ~fe.vol_active) THEN fe
    ELSE IF n = 1 THEN StepVolEnv(r, StepFreqEnv(r, fe))
    ELSE EnvAfter(r, EnvAfter(r, fe, n \div 2), n - n \div 2)

\* the accumulators of env_state are in their ranges
AccumInRange(fe) ==
    /\ 0 - \h800000 <= fe.freq_accum /\ fe.freq_accum <= \h7FFFFF
    /\ -128 <= fe.vol_accum /\ fe.vol_accum <= 127

\* the event e is the polychip write of a frame whose env_state is fe, for a
\* note of base divider base_freq
FrameWrite(e, fe, base_freq) ==
    e.data = << pokey_ch_idx,
                (base_freq + (fe.freq_accum \div 256)) % 256,
                BitOr(Max(0, Min(15, volume + (fe.vol_accum \div 8))),
                      BitAnd(distortion, \hF0)) >>

\* C28: the frequency accumulator stays in [-0x800000, 0x7FFFFF] and the
\* volume accumulator in [-128, 127] after every frame step, and the event
\* of every frame of a note or rest under an envelope carries
\* AUDF = (base_freq + (freq_accum >> 8)) mod 256 and
\* AUDC = clamp(base_vol + (vol_accum >> 3), 0, 15) | (distortion & 0xF0),
\* with the accumulators of that frame.
C28_AccumulatorsAndWrites ==
    /\ [](AccumInRange(pokey_env))
    /\ [][(Fetching /\ IsNoteByte(byte0) /\ byte1 > 0
           /\ on_pokey /\ has_env /\ status' = "running") =>
             \A i \in NoteOns(emitted') :
                \E fe \in {EnvAfter(rom, pokey_env, i)} :
                   /\ AccumInRange(fe)
                   /\ FrameWrite(emitted'[i], fe,
                         IF byte0 = 0 THEN 0
                         ELSE base_audf(freq_word(byte0)))]_vars

\* a note of $7700 was played, frame by frame, with the frequency
\* accumulator at its upper limit and the volume accumulator at its lower
C28_Witness ==
    /\ start_addr = \h7700 /\ on_pokey /\ NoteOns(emitted) # {}
    /\ pokey_env.freq_accum = \h7FFFFF /\ pokey_env.vol_accum = -128

\* ---- a rest under an envelope at tempo 0 ----
\* the instruction at pc is a rest on the polychip with an active envelope
\* while tempo is 0
AtRingOut ==
    /\ Fetching /\ byte0 = 0 /\ byte1 > 0 /\ ~Raised(base_dur(byte1))
    /\ on_pokey /\ has_env /\ tempo = 0
\* the computed volume of the frame event e is 0 (the low nibble of AUDC)
SilentFrame(e) == e.data[3] % 16 = 0
\* frame j of the events seq completes MAX_SILENT consecutive silent frames
CompletesSilence(seq, j) ==
    /\ j >= MAX_SILENT
    /\ \A i \in (j - MAX_SILENT + 1)..j : SilentFrame(seq[i])
\* the events seq are one pokey_note_on per frame, at consecutive frames
\* from the voice's time on
FrameByFrame(seq) ==
    \A i \in 1..Len(seq) :
        /\ seq[i].kind = "pokey_note_on"
        /\ seq[i].t = RDivInt(RAdd(cumulative_frames, RInt(i - 1)), FRAME_RATE)

\* C29 (as stated): the rest emits one event per frame, stops at the first
\* frame that completes 4 consecutive frames of computed volume 0, and
\* advances the voice's time by the number of frames emitted.
C29_Original ==
    [][AtRingOut /\ status' = "running" =>
          /\ FrameByFrame(emitted')
          /\ CompletesSilence(emitted', Len(emitted'))
          /\ \A j \in 1..(Len(emitted') - 1) : ~CompletesSilence(emitted', j)
          /\ cumulative_frames' =
                RAdd(cumulative_frames, RInt(Len(emitted')))]_vars

\* C29 (amended): the rest stops at the first frame that completes 4
\* consecutive silent frames or at its 600th frame, whichever comes first.
C29_RingOut ==
    [][AtRingOut /\ status' = "running" =>
          /\ FrameByFrame(emitted')
          /\ \/ CompletesSilence(emitted', Len(emitted'))
             \/ Len(emitted') = SILENCE_FRAMES
          /\ \A j \in 1..(Len(emitted') - 1) : ~CompletesSilence(emitted', j)
          /\ cumulative_frames' =
                RAdd(cumulative_frames, RInt(Len(emitted')))]_vars

\* the rest of $7740 never fell silent and was stopped by the frame limit
C29_Witness ==
    /\ start_addr = \h7740 /\ on_pokey /\ pc = \h7747
    /\ Len(emitted) = SILENCE_FRAMES
    /\ ~CompletesSilence(emitted, Len(emitted))
    /\ cumulative_frames = RInt(SILENCE_FRAMES)

\* the rest of $7760 was silent for 2 frames, audible for 1 and stopped at
\* the 4th silent frame after that
C29_WitnessSilent ==
    /\ start_addr = \h7760 /\ on_pokey /\ pc = \h7767
    /\ Len(emitted) = 7 /\ CompletesSilence(emitted, 7)
    /\ ~SilentFrame(emitted[3])

(***************************************************************************)
(* Properties of resolve_command                                           *)
(***************************************************************************)
InRom(a) == ROM_BASE <= a /\ a < ROM_BASE + ROM_SIZE
IsWord(a) == 0 <= a /\ a <= \hFFFF

DistinctOffsets ==
    \A i, j \in 1..Len(channels) :
        i # j => channels[i].offset # channels[j].offset

\* C7: the type-7 chain walk terminates (every iteration that stays in the
\* walk adds one entry, and there are never more than 30), never lists an
\* offset twice, and has stopped at next == 0, at an offset already
\* visited, or at 30 entries.
C7_ChainWalkBounded ==
    /\ [](Len(channels) <= MAX_CHAIN /\ DistinctOffsets)
    /\ [](res_pc = "returned" /\ info.handler_type = 7 =>
            cur = 0 \/ cur \in seen \/ Len(channels) = MAX_CHAIN)
    /\ [][res_pc = "walk" /\ res_pc' = "walk" =>
            Len(channels') = Len(channels) + 1]_vars

\* a walk cut off by the 30-entry limit with the chain still going on
C7_Witness ==
    /\ res_pc = "returned" /\ Len(channels) = MAX_CHAIN
    /\ cur # 0 /\ cur \notin seen

\* C8 (as stated): a descriptor marked renderable has its seq_ptr, and the
\* seq_ptr of every channel of its chain, inside [0x4000, 0x10000).
C8_Original ==
    res_pc = "returned" /\ info.has_sequence =>
        /\ InRom(info.seq_ptr)
        /\ \A i \in 1..Len(channels) : InRom(channels[i].seq_ptr)

\* C8 (amended): a descriptor marked renderable has handler type 7 or 11;
\* every seq_ptr it carries is the 16-bit word read from the table, not
\* checked against the ROM range; a type-7 descriptor's seq_ptr is the one
\* of the first channel of its chain and is missing exactly when the chain
\* is empty.
C8_Renderable ==
    res_pc = "returned" /\ info.has_sequence =>
        /\ info.handler_type \in {7, 11}
        /\ info.handler_type = 11 =>
              IsWord(info.seq_ptr) /\ IsWord(info.seq_len)
        /\ info.handler_type = 7 =>
              /\ \A i \in 1..Len(channels) :
                    channels[i].seq_ptr =
                        read_word(rom, SFX_SEQ_PTR_TABLE +
                                       2 * channels[i].offset)
              /\ channels = << >> => info.seq_ptr = None
              /\ channels # << >> => info.seq_ptr = channels[1].seq_ptr
                                     /\ IsWord(info.seq_ptr)

\* a renderable type-7 descriptor whose chain is empty
C8_Witness ==
    /\ res_pc = "returned" /\ info.has_sequence
    /\ info.handler_type = 7 /\ channels = << >> /\ info.seq_ptr = None

\* C9 (as stated): resolve_command never raises.
C9_NeverRaises == res_pc # "raised"

(***************************************************************************)
(* Properties of the ROM access layer                                      *)
(***************************************************************************)
\* the address lies outside the mapped data
AddrOutside(r, addr) == addr < ROM_BASE \/ addr >= ROM_BASE + DataLen(r)
\* the requested span runs past the end of the data
SpanPastEnd(r, addr, n) == addr + n > ROM_BASE + DataLen(r)

Bit(x, k) == (x \div 2^k) % 2
Xor1(a, b) == (a + b) % 2

\* one iteration of _init_poly4_5 with the two bits combined by xor alone
Poly45Step_xor(size, lfsr) ==
    ((lfsr * 2) + Xor1(Bit(lfsr, 2), Bit(lfsr, size - 1))) % 2^size

\* one iteration of _init_poly4_5:
\*   lfsr = ((lfsr << 1) | (~((lfsr >> 2) ^ (lfsr >> xorbit)) & 1)) & mask
Poly45Step(size, lfsr) ==
    ((lfsr * 2) + (1 - Xor1(Bit(lfsr, 2), Bit(lfsr, size - 1)))) % 2^size

\* one iteration of _init_poly9_17, size 9:
\*   in_bit = ((lfsr >> 0) ^ (lfsr >> 5)) & 1; lfsr = (lfsr >> 1) | (in_bit << 8)
Poly9Step(lfsr) == (lfsr \div 2) + 256 * Xor1(Bit(lfsr, 0), Bit(lfsr, 5))

\* one iteration of _init_poly9_17, size 17: bit 0 moves to bit 16 and
\* bit 7 of the shifted value is replaced by bit 8 xor bit 13
Poly17Step(lfsr) ==
    LET in8    == Xor1(Bit(lfsr, 8), Bit(lfsr, 13))
        in_bit == lfsr % 2
        sh     == (lfsr \div 2) % 65536
    IN  in_bit * 65536 + (sh - 128 * Bit(sh, 7)) + 128 * in8

PolyStep(size, lfsr) ==
    IF size \in {4, 5} THEN Poly45Step(size, lfsr)
    ELSE IF size = 17 THEN Poly17Step(lfsr) ELSE Poly9Step(lfsr)

\* mask = (1 << size) - 1, the number of iterations and of entries
PolyMask(size) == 2^size - 1

\* lfsr before the first iteration
PolyStart(size) == IF size \in {4, 5} THEN 0 ELSE PolyMask(size)

\* the four tables __init__ builds
PolySizes == {4, 5, 9, 17}

\* poly.append(lfsr) after one step; poly.lfsr is the last entry appended
PolyAppend ==
    /\ poly.size \in PolySizes /\ poly.len < PolyMask(poly.size)
    /\ poly' = [poly EXCEPT !.lfsr = PolyStep(poly.size, poly.lfsr),
                            !.len = poly.len + 1]
    /\ UNCHANGED not_poly

InitPoly ==
    /\ rom = "main" /\ IdleBut_poly
    /\ \E size \in PolySizes :
          poly = [size |-> size, lfsr |-> PolyStart(size), len |-> 0]
NextPoly == PolyAppend
SpecPoly == InitPoly /\ [][NextPoly]_vars

(***************************************************************************)
(* Properties of the polynomial tables                                     *)
(***************************************************************************)
\* the first entry of the table of a size
PolyFirst(size) == PolyStep(size, PolyStart(size))

\* C17: each table is a full-period LFSR sequence: the finished tables
\* have 15, 31, 511 and 131071 entries, no entry after the first equals
\* the first entry (so, the step being a function of the entry alone and
\* the step from the last entry giving the first, the entries are pairwise
\* distinct), and stepping from the last entry returns to the first.
C17_FullPeriod ==
    LET period == IF poly.size = 4 THEN 15 ELSE IF poly.size = 5 THEN 31
                  ELSE IF poly.size = 9 THEN 511 ELSE 131071
    IN  /\ poly.len <= period
        /\ ~ENABLED PolyAppend <=> poly.len = period
        /\ poly.len > 1 => poly.lfsr # PolyFirst(poly.size)
        /\ poly.len = period =>
              PolyStep(poly.size, poly.lfsr) = PolyFirst(poly.size)

\* the finished 511-entry table, closing on its first entry
C17_Witness ==
    /\ poly.size = 9 /\ poly.len = 511
    /\ PolyStep(9, poly.lfsr) = PolyFirst(9) /\ poly.lfsr # PolyFirst(9)

(***************************************************************************)
(* disassemble_sequence                                                    *)
(***************************************************************************)
max_total == 1024

\* the guard `addr in visited_addrs` left out
Seen_never(d, a) == FALSE

\* `addr in visited_addrs`
Seen(d, a) == a \in d.visited_addrs

\* an iteration that gets as far as reading byte0
DisFetching ==
    /\ dis.status = "running" /\ dis.total < max_total
    /\ InRomRange(dis.addr) /\ ~Seen(dis, dis.addr)

\* visited_addrs.add(addr); total += 1 and the one Instruction that every
\* branch below appends for the byte read at addr
Decoded(d) ==
    [d EXCEPT !.visited_addrs = @ \cup {d.addr}, !.total = @ + 1,
              !.decoded = @ \cup {d.addr}, !.n = @ + 1,
              !.twice = @ \/ d.addr \in d.decoded]

\* the durations of build_channel_timeline, in frames: raw is inst.raw,
\* bd the word read from the duration table
TimedValue(raw, bd) == IF (raw[2] \div 64) % 2 = 1 THEN Rat(3 * bd, 2) ELSE RInt(bd)
TimedFrames(t, raw, bd) ==
    IF t.tempo > 0 /\ TimedValue(raw, bd)[1] > 0
    THEN RDivInt(TimedValue(raw, bd), t.tempo)
    ELSE RInt(0)

\* events.append(TimedEvent(time, duration, ...)) for a NOTE or REST, then
\* cumulative_frames += dur_frames; time and duration are kept in frames
TimedNote(t, raw, bd) ==
    IF Raised(bd) THEN [t EXCEPT !.raised = TRUE]
    ELSE [t EXCEPT !.n = @ + 1, !.time = t.cumulative_frames,
                   !.duration = TimedFrames(t, raw, bd),
                   !.cumulative_frames = RAdd(@, TimedFrames(t, raw, bd))]

\* one pass of the loop of build_channel_timeline over the instruction
\* with bytes raw. The mnemonic is a function of raw: SET_TEMPO is 0x80,
\* ADD_TEMPO 0x81, NOTE / REST a first byte up to 0x7F with a second byte
\* other than 0 (CHAIN has second byte 0, a truncated note has one byte)
build_channel_timeline(r, t, raw) ==
    IF t.raised \/ Len(raw) < 2 THEN t
    ELSE IF raw[1] = \h80 THEN [t EXCEPT !.tempo = raw[2] \div 4]
    ELSE IF raw[1] = \h81 THEN [t EXCEPT !.tempo = (@ + raw[2]) % 256]
    ELSE IF raw[1] <= \h7F /\ raw[2] # 0
    THEN TimedNote(t, raw,
                   IF raw[2] % 16 = 0 THEN 0
                   ELSE read_word(r, DURATION_TABLE_ADDR + (raw[2] % 16) * 2))
    ELSE t

\* the instruction list is walked by build_channel_timeline in the order
\* disassemble_sequence appended it, so the walk is made as the list grows
Timed(d, raw) == [d EXCEPT !.timeline = build_channel_timeline(rom, @, raw)]

\* instructions.append(_marker(...))
Marked(d) == [d EXCEPT !.markers = @ + 1]

\* break, then return instructions
Broke(d) == [d EXCEPT !.status = "returned"]

\* an exception other than ValueError leaves the function
DisRaised(d) == [d EXCEPT !.status = "raised"]

\* while total < max_total fails
DisCapped ==
    /\ dis.status = "running" /\ dis.total >= max_total
    /\ dis' = Broke(dis)
    /\ UNCHANGED not_dis

DisOutOfRange ==
    /\ dis.status = "running" /\ dis.total < max_total
    /\ ~InRomRange(dis.addr)
    /\ dis' = Broke(Marked(dis))
    /\ UNCHANGED not_dis

DisLoop ==
    /\ dis.status = "running" /\ dis.total < max_total
    /\ InRomRange(dis.addr) /\ Seen(dis, dis.addr)
    /\ dis' = Broke(Marked(dis))
    /\ UNCHANGED not_dis

\* byte0 = rom.read_byte(addr) raises
DisReadError ==
    /\ DisFetching
    /\ \E b0 \in {read_byte(rom, dis.addr)} :
          /\ Raised(b0)
          /\ dis' = IF b0 = ValueError
                    THEN Broke(Marked([dis EXCEPT !.visited_addrs =
                                                    @ \cup {dis.addr}]))
                    ELSE DisRaised(dis)
    /\ UNCHANGED not_dis

DisEnd ==
    /\ DisFetching
    /\ \E b0 \in {read_byte(rom, dis.addr)} :
          /\ ~Raised(b0) /\ b0 >= \hBB
          /\ dis' = Broke(Decoded(dis))
    /\ UNCHANGED not_dis

\* the second byte of a note cannot be read
DisTruncated ==
    /\ DisFetching
    /\ \E b0 \in {read_byte(rom, dis.addr)} :
       \E b1 \in {read_byte(rom, dis.addr + 1)} :
          /\ ~Raised(b0) /\ b0 <= \h7F /\ Raised(b1)
          /\ dis' = IF b1 = ValueError THEN Broke(Decoded(dis))
                    ELSE DisRaised(dis)
    /\ UNCHANGED not_dis

\* CHAIN with a return address on the stack
DisChainReturn ==
    /\ DisFetching
    /\ \E b0 \in {read_byte(rom, dis.addr)} :
       \E b1 \in {read_byte(rom, dis.addr + 1)} :
          /\ ~Raised(b0) /\ b0 <= \h7F /\ b1 = 0
          /\ dis.return_stack # << >>
          /\ dis' = [Marked(Decoded(dis)) EXCEPT
                        !.addr = dis.return_stack[Len(dis.return_stack)],
                        !.return_stack = SubSeq(@, 1, Len(@) - 1)]
    /\ UNCHANGED not_dis

DisChainEnd ==
    /\ DisFetching
    /\ \E b0 \in {read_byte(rom, dis.addr)} :
       \E b1 \in {read_byte(rom, dis.addr + 1)} :
          /\ ~Raised(b0) /\ b0 <= \h7F /\ b1 = 0
          /\ dis.return_stack = << >>
          /\ dis' = Broke(Decoded(dis))
    /\ UNCHANGED not_dis

DisNote ==
    /\ DisFetching
    /\ \E b0 \in {read_byte(rom, dis.addr)} :
       \E b1 \in {read_byte(rom, dis.addr + 1)} :
          /\ ~Raised(b0) /\ b0 <= \h7F /\ ~Raised(b1) /\ b1 # 0
          /\ dis' = [Timed(Decoded(dis), << b0, b1 >>) EXCEPT !.addr = @ + 2]
    /\ UNCHANGED not_dis

\* every byte 0x80..0xBA is a key of OPCODES, so the `unknown opcode`
\* branch is never taken; args holds the operand bytes that could be read
DisPushSeq ==
    /\ DisFetching
    /\ \E b0 \in {read_byte(rom, dis.addr)} :
       \E a \in {ArgsFrom(rom, dis.addr + 1, 2)} :
          /\ b0 = \h8D /\ Len(a) >= 2
          /\ \E target \in {a[1] + 256 * a[2]} :
                dis' =
                  IF ~InRomRange(target) \/ target \in dis.visited_segments
                  THEN [Marked(Decoded(dis)) EXCEPT !.addr = @ + 3]
                  ELSE [Marked(Decoded(dis)) EXCEPT
                          !.visited_segments = @ \cup {target},
                          !.return_stack = Append(@, dis.addr + 3),
                          !.addr = target]
    /\ UNCHANGED not_dis

DisSetSeqPtr ==
    /\ DisFetching
    /\ \E b0 \in {read_byte(rom, dis.addr)} :
       \E a \in {ArgsFrom(rom, dis.addr + 1, 2)} :
          /\ b0 = \h99 /\ Len(a) >= 2
          /\ \E target \in {a[1] + 256 * a[2]} :
                dis' =
                  IF ~InRomRange(target) \/ target \in dis.visited_segments
                  THEN Broke(Marked(Decoded(dis)))
                  ELSE [Decoded(dis) EXCEPT
                          !.visited_segments = @ \cup {target},
                          !.addr = target]
    /\ UNCHANGED not_dis

\* all other opcodes, and PUSH_SEQ / SET_SEQ_PTR whose operand is cut off
DisOther ==
    /\ DisFetching
    /\ \E b0 \in {read_byte(rom, dis.addr)} :
       \E a \in {ArgsFrom(rom, dis.addr + 1, arg_bytes(b0))} :
          /\ ~Raised(b0) /\ b0 > \h7F /\ b0 < \hBB
          /\ ~(b0 \in {\h8D, \h99} /\ Len(a) >= 2)
          /\ dis' = [Timed(Decoded(dis), << b0 >> \o a) EXCEPT
                        !.addr = @ + 1 + arg_bytes(b0)]
    /\ UNCHANGED not_dis

\* (image, start_addr) of a call
DisEntries ==
    { << "calls", a >> : a \in {\h4000, \h4100, \h4300, \h4400, \h4500,
                                \hFFFD, \hFFFF, \h3000, 65536, -1} } \cup
    { << "notes", \h4000 >>, << "notes", \hFFFE >>, << "notes", \hFFFF >>,
      << "main", \h7400 >>, << "main", \h7000 >>,
      << "short", \h5EFF >>, << "short", \h5F00 >> }

\* the locals of disassemble_sequence(rom, start_addr) before its loop
DisLocals(start) ==
    [status |-> "running", addr |-> start, total |-> 0,
     return_stack |-> << >>, visited_segments |-> {start},
     visited_addrs |-> {}, decoded |-> {}, n |-> 0,
     markers |-> 0, twice |-> FALSE, timeline |-> NoTimeline]

InitDis ==
    /\ IdleBut_dis
    /\ \E e \in DisEntries :
          /\ rom = e[1]
          /\ dis = DisLocals(e[2])

NextDis ==
    \/ DisCapped \/ DisOutOfRange \/ DisLoop \/ DisReadError \/ DisEnd
    \/ DisTruncated \/ DisChainReturn \/ DisChainEnd \/ DisNote
    \/ DisPushSeq \/ DisSetSeqPtr \/ DisOther

SpecDis == InitDis /\ [][NextDis]_vars

(***************************************************************************)
(* Properties of disassemble_sequence                                      *)
(***************************************************************************)
\* C18: on a 48 KiB image disassemble_sequence does not raise, the
\* instructions it decodes (markers aside) all have different addresses,
\* and it decodes at most 1024 of them.
C18_Bounded ==
    DataLen(rom) = ROM_SIZE =>
        /\ dis.status # "raised"
        /\ ~dis.twice /\ Cardinality(dis.decoded) = dis.n
        /\ dis.n <= 1024

\* a call on a 48 KiB image of notes, stopped by the cap with 1024
\* instructions decoded at 1024 different addresses
C18_Witness ==
    /\ DataLen(rom) = ROM_SIZE /\ dis.status = "returned"
    /\ dis.n = 1024 /\ dis.total = max_total
    /\ Cardinality(dis.decoded) = 1024

(***************************************************************************)
(* The event-driven render loops                                           *)
(***************************************************************************)
RMin(p, q) == IF RLt(q, p) THEN q ELSE p

\* int(t * sample_rate) for t >= 0
SampleOf(t, sample_rate) == RFloor(Rat(t[1] * sample_rate, t[2]))

RECURSIVE InsertByTime_before(_, _)
\* insertion in front of the events of the same time
InsertByTime_before(sorted, e) ==
    IF sorted = << >> THEN << e >>
    ELSE IF RLe(e.t, Head(sorted).t) THEN << e >> \o sorted
    ELSE << Head(sorted) >> \o InsertByTime_before(Tail(sorted), e)

RECURSIVE InsertByTime(_, _)
\* list.sort is stable: an element goes behind every element already
\* placed whose key is not greater
InsertByTime(sorted, e) ==
    IF sorted = << >> THEN << e >>
    ELSE IF RLt(e.t, Head(sorted).t) THEN << e >> \o sorted
    ELSE << Head(sorted) >> \o InsertByTime(Tail(sorted), e)

RECURSIVE sort_by_time(_)
\* events.sort(key=lambda e: e[0])
sort_by_time(list) ==
    IF list = << >> THEN << >>
    ELSE InsertByTime(sort_by_time(SubSeq(list, 1, Len(list) - 1)),
                      list[Len(list)])

RECURSIVE LastTime(_)
\* end_time after `for t, etype, data in events`: the largest t, 0 at least
LastTime(list) ==
    IF list = << >> THEN RInt(0)
    ELSE RMax(LastTime(Tail(list)), Head(list).t)

RECURSIVE SumSeq(_)
SumSeq(q) == IF q = << >> THEN 0 ELSE Head(q) + SumSeq(Tail(q))

\* the four loops: the tail added to the last event time, the cap on the
\* end time, whether the loop tests `event_idx <= len(events)` and whether
\* the result is sliced to total_samples
LoopKinds ==
    [ _render_pokey_events |->
        [tail |-> Rat(1, 10), cap |-> 30, idx_test |-> TRUE, sliced |-> TRUE],
      _render_ym_events |->
        [tail |-> Rat(1, 2), cap |-> 30, idx_test |-> TRUE, sliced |-> TRUE],
      sfx_to_wav |->
        [tail |-> Rat(1, 2), cap |-> 300, idx_test |-> FALSE,
         sliced |-> FALSE],
      music_to_wav |->
        [tail |-> Rat(1, 1), cap |-> 300, idx_test |-> FALSE,
         sliced |-> FALSE] ]

sample_rate == 44100

\* end_time = min(end_time + tail, cap)
EndTime(kind, list) ==
    RMin(RAdd(LastTime(list), LoopKinds[kind].tail),
         RInt(LoopKinds[kind].cap))

\* chip.render(n, sample_rate) returns n samples
ChipRender(r, n) ==
    [r EXCEPT !.chunks = Append(@, n), !.chip_n = @ + n,
              !.current_sample = @ + n]

\* what the function hands back: the chunks concatenated (and sliced)
Returned(r) ==
    [r EXCEPT !.pc = "done",
              !.returned = IF LoopKinds[r.kind].sliced
                           THEN Min(SumSeq(r.chunks), r.total_samples)
                           ELSE SumSeq(r.chunks)]

\* the code up to the loop: sort, end_time, total_samples, chip reset
RlSetup ==
    /\ rl.pc = "setup"
    /\ \E sorted \in {sort_by_time(rl.events)} :
       \E total \in {SampleOf(EndTime(rl.kind, sorted), sample_rate)} :
          rl' = IF sorted = << >> \/ total <= 0
                THEN [rl EXCEPT !.pc = "done", !.returned = 0]
                ELSE [rl EXCEPT !.pc = "outer", !.events = sorted,
                                !.total_samples = total]
    /\ UNCHANGED not_rl

\* the test of the outer while
RlWhile(r) ==
    /\ r.current_sample < r.total_samples
    /\ LoopKinds[r.kind].idx_test => r.event_idx <= Len(r.events)

\* next_sample of an iteration
NextSample(r) ==
    IF r.event_idx < Len(r.events)
    THEN Min(SampleOf(r.events[r.event_idx + 1].t, sample_rate),
             r.total_samples)
    ELSE r.total_samples

\* an iteration starts: render up to the next event
RlRender ==
    /\ rl.pc = "outer" /\ RlWhile(rl)
    /\ \E render_count \in {NextSample(rl) - rl.current_sample} :
       \E r \in {[rl EXCEPT !.pc = "inner", !.iters = @ + 1,
                            !.it_cur = rl.current_sample,
                            !.it_idx = rl.event_idx]} :
          rl' = IF render_count > 0 THEN ChipRender(r, render_count) ELSE r
    /\ UNCHANGED not_rl

\* the outer while ends by its test
RlExit ==
    /\ rl.pc = "outer" /\ ~RlWhile(rl)
    /\ rl' = Returned(rl)
    /\ UNCHANGED not_rl

\* the inner while without the test of the event's sample position
RlDue_always(r) == r.event_idx < Len(r.events)

\* the test of the inner while

RlDue(r) ==
    /\ r.event_idx < Len(r.events)
    /\ SampleOf(r.events[r.event_idx + 1].t, sample_rate) <= r.current_sample

\* the inner while applies one event: its writes reach the chip after
\* chip_n samples were rendered
RlApply ==
    /\ rl.pc = "inner" /\ RlDue(rl)
    /\ rl' = [rl EXCEPT
                !.applied = Append(@, [id |-> rl.events[rl.event_idx + 1].id,
                                       at |-> rl.chip_n]),
                !.event_idx = @ + 1]
    /\ UNCHANGED not_rl

\* break without rendering the remainder
RlBreak_noremain ==
    /\ rl.pc = "inner" /\ ~RlDue(rl)
    /\ rl.event_idx >= Len(rl.events)
    /\ rl' = Returned(rl)
    /\ UNCHANGED not_rl

\* no event left: render the remainder and break
RlBreak ==
    /\ rl.pc = "inner" /\ ~RlDue(rl)
    /\ rl.event_idx >= Len(rl.events)
    /\ \E remain \in {rl.total_samples - rl.current_sample} :
          rl' = Returned(IF remain > 0 THEN ChipRender(rl, remain) ELSE rl)
    /\ UNCHANGED not_rl

RlAgain ==
    /\ rl.pc = "inner" /\ ~RlDue(rl)
    /\ rl.event_idx < Len(rl.events)
    /\ rl' = [rl EXCEPT !.pc = "outer"]
    /\ UNCHANGED not_rl

MaxEvents == 3

\* event times: first frame, within the tail of the cap, at and past the cap
RenderTimes ==
    { Rat(0, 1), Rat(1, 120), Rat(1, 2), Rat(599, 20), Rat(30, 1),
      Rat(300, 1), Rat(601, 2) }

\* event lists in emission order, id = position in the list
RenderInputs ==
    UNION { { [i \in 1..n |-> [t |-> f[i], id |-> i]] :
                f \in [1..n -> RenderTimes] } : n \in 0..MaxEvents }

InitRender ==
    /\ rom = "main" /\ IdleBut_rl
    /\ \E kind \in DOMAIN LoopKinds, list \in RenderInputs :
          rl = [kind |-> kind, pc |-> "setup", events |-> list,
                total_samples |-> 0, current_sample |-> 0, event_idx |-> 0,
                chunks |-> << >>, chip_n |-> 0, applied |-> << >>,
                it_cur |-> 0, it_idx |-> 0, iters |-> 0, returned |-> None]

NextRender ==
    RlSetup \/ RlRender \/ RlExit \/ RlApply \/ RlBreak \/ RlAgain

SpecRender == InitRender /\ [][NextRender]_vars

(***************************************************************************)
(* Properties of the render loops                                          *)
(***************************************************************************)
\* sample position of the j-th event of the sorted list
EventSample(j) == SampleOf(rl.events[j].t, sample_rate)

\* C13: once the list is sorted, the j-th write sequence the chip receives
\* is that of the j-th event of the list (list order, none skipped, none
\* twice); an event whose sample position k is below total_samples is
\* applied when the chip has rendered exactly k samples (after samples
\* 0..k-1, before sample k); and when the loop is left every such event
\* has been applied.
C13_AppliedAtSample ==
    rl.pc \in {"outer", "inner", "done"} /\ rl.events # << >> =>
        /\ Len(rl.applied) = rl.event_idx
        /\ rl.event_idx <= Len(rl.events)
        /\ \A j \in 1..Len(rl.applied) :
              /\ rl.applied[j].id = rl.events[j].id
              /\ EventSample(j) < rl.total_samples =>
                    rl.applied[j].at = EventSample(j)
        /\ rl.pc = "done" =>
              \A j \in 1..Len(rl.events) :
                  EventSample(j) < rl.total_samples =>
                      j <= Len(rl.applied)

\* three events at three different sample positions, all applied, the
\* first before any sample was rendered
C13_Witness ==
    /\ rl.pc = "done" /\ Len(rl.applied) = 3
    /\ rl.applied[1].at = 0 /\ rl.applied[2].at > 0
    /\ rl.applied[3].at > rl.applied[2].at
    /\ rl.applied[3].at < rl.total_samples

\* C15: for a non-empty trace _render_pokey_events returns exactly
\* floor(end_time x sample_rate) samples, end_time being the largest event
\* time plus 0.1 s, at most max_seconds (30 s here); every iteration of the
\* loop advances the sample cursor or the event cursor, and there are at
\* most len(events) + 1 iterations, each applying at most the events left.
C15_SampleCount ==
    rl.kind = "_render_pokey_events" /\ rl.events # << >> =>
        /\ rl.pc = "done" =>
              LET last == LastTime(rl.events)
                  endt == IF RLt(RAdd(last, Rat(1, 10)), RInt(30))
                          THEN RAdd(last, Rat(1, 10)) ELSE RInt(30)
              IN  rl.returned = (endt[1] * 44100) \div endt[2]
        /\ rl.pc = "outer" /\ rl.iters > 0 =>
              \/ rl.current_sample > rl.it_cur
              \/ rl.event_idx > rl.it_idx
        /\ rl.iters <= Len(rl.events) + 1
        /\ rl.event_idx <= Len(rl.events)
        /\ rl.current_sample <= rl.total_samples

\* a trace ending at 0.5 s: 0.6 s x 44100 = 26460 samples, rendered in
\* several chunks
C15_Witness ==
    /\ rl.kind = "_render_pokey_events" /\ rl.pc = "done"
    /\ Len(rl.events) = 3 /\ Len(rl.applied) = 3
    /\ rl.returned = 26460 /\ Len(rl.chunks) >= 2

(***************************************************************************)
(* sfx_to_wav / music_to_wav: merging the event lists of the FM voices     *)
(***************************************************************************)
\* for ch in ym_channels: events = interp._interpret_sequence(...);
\* all_events.extend(events)
MergeExtend ==
    /\ mg.pc = "collect" /\ mg.ch < Len(mg.traces)
    /\ mg' = [mg EXCEPT !.all_events = @ \o mg.traces[mg.ch + 1],
                        !.ch = @ + 1]
    /\ UNCHANGED not_mg

\* if not all_events: nothing is rendered
MergeEmpty ==
    /\ mg.pc = "collect" /\ mg.ch = Len(mg.traces)
    /\ mg.all_events = << >>
    /\ mg' = [mg EXCEPT !.pc = "returned"]
    /\ UNCHANGED not_mg

\* all_events.sort(key=lambda e: e[0])
MergeSort ==
    /\ mg.pc = "collect" /\ mg.ch = Len(mg.traces)
    /\ mg.all_events # << >>
    /\ mg' = [mg EXCEPT !.all_events = sort_by_time(@), !.pc = "sorted"]
    /\ UNCHANGED not_mg

MaxVoices == 2
MaxVoiceEvents == 2

MergeTimes == { Rat(0, 1), Rat(1, 2), Rat(1, 1) }

\* the trace of voice v (its place in ym_channels): k is the place of an
\* event in the list _interpret_sequence returned
VoiceTraces(v) ==
    UNION { { [k \in 1..n |-> [t |-> f[k], voice |-> v, k |-> k]] :
                f \in [1..n -> MergeTimes] } : n \in 0..MaxVoiceEvents }

RECURSIVE TraceLists(_)
\* the traces of voices 1..n
TraceLists(n) ==
    IF n = 0 THEN { << >> }
    ELSE { Append(l, tr) : l \in TraceLists(n - 1), tr \in VoiceTraces(n) }

InitMerge ==
    /\ rom = "main" /\ IdleBut_mg
    /\ \E n \in 1..MaxVoices : \E traces \in TraceLists(n) :
          mg = [pc |-> "collect", traces |-> traces, ch |-> 0,
                all_events |-> << >>]

NextMerge == MergeExtend \/ MergeEmpty \/ MergeSort

SpecMerge == InitMerge /\ [][NextMerge]_vars

(***************************************************************************)
(* Properties of the merge                                                 *)
(***************************************************************************)
\* number of events of all voices
MergeTotal == SumSeq([v \in 1..Len(mg.traces) |-> Len(mg.traces[v])])

\* C14: the sorted all_events holds every event of every voice once, in
\* nondecreasing time, and of two events with the same time the one of
\* the voice enumerated earlier comes first, or, within one voice, the
\* one emitted earlier.
C14_StableMerge ==
    mg.pc = "sorted" =>
        /\ Len(mg.all_events) = MergeTotal
        /\ \A v \in 1..Len(mg.traces) : \A k \in 1..Len(mg.traces[v]) :
              \E i \in 1..Len(mg.all_events) :
                  mg.all_events[i] = mg.traces[v][k]
        /\ \A i, j \in 1..Len(mg.all_events) :
              i < j =>
                 /\ RLe(mg.all_events[i].t, mg.all_events[j].t)
                 /\ mg.all_events[i].t = mg.all_events[j].t =>
                       \/ mg.all_events[i].voice < mg.all_events[j].voice
                       \/ /\ mg.all_events[i].voice = mg.all_events[j].voice
                          /\ mg.all_events[i].k < mg.all_events[j].k

\* two voices of two events each, all four at the same time: they stay
\* in the order voice 1 first, each voice in emission order
C14_Witness ==
    /\ mg.pc = "sorted" /\ Len(mg.all_events) = 4
    /\ \A i \in 1..4 : mg.all_events[i].t = Rat(1, 2)
    /\ mg.all_events[2] = mg.traces[1][2]
    /\ mg.all_events[3] = mg.traces[2][1]

(***************************************************************************)
(* write_midi                                                              *)
(***************************************************************************)
ticks_per_beat == 480

RSub(p, q) == Rat(p[1] * q[2] - q[1] * p[2], p[2] * q[2])

\* int(secs * ticks_per_beat * 2) for secs >= 0
Ticks(secs) == RFloor(Rat(secs[1] * ticks_per_beat * 2, secs[2]))

RECURSIVE TimelineEnd(_)
\* the largest ev.time + ev.duration of a timeline, 0 at least
TimelineEnd(tl) ==
    IF tl = << >> THEN RInt(0)
    ELSE RMax(RAdd(Head(tl).time, Head(tl).duration), TimelineEnd(Tail(tl)))

RECURSIVE SongEnd(_)
\* song_end: the latest event end across all channels
SongEnd(tls) ==
    IF tls = << >> THEN RInt(0)
    ELSE RMax(TimelineEnd(Head(tls)), SongEnd(Tail(tls)))

\* note_events = [ev for ev in timeline
\*                if not ev.is_rest and ev.midi_note is not None]
note_events(tl) ==
    SelectSeq(tl, LAMBDA ev : ~ev.is_rest /\ ev.midi_note # None)

\* dur_ticks = max(1, int((end_secs - ev.time) * ticks_per_beat * 2))
SustainTicks(ev, end_secs) == Max(1, Ticks(RSub(end_secs, ev.time)))

\* the Note On / Note Off pair appended for note i of track ch_idx
NotePair(m, ev, dur_ticks) ==
    [m EXCEPT !.events = Append(@, [ch |-> m.ch_idx, i |-> m.i,
                                    on |-> Ticks(ev.time),
                                    off |-> Ticks(ev.time) + dur_ticks]),
              !.i = @ + 1]

\* the code before the track loop
MidiHeader ==
    /\ midi.pc = "start"
    /\ midi' = [midi EXCEPT !.pc = "tracks",
                            !.song_end = SongEnd(midi.timelines)]
    /\ UNCHANGED not_midi

\* an iteration of `for i, ev in enumerate(note_events)` is due
MidiAtNote ==
    /\ midi.pc = "tracks" /\ midi.ch_idx < Len(midi.timelines)
    /\ midi.i < Len(note_events(midi.timelines[midi.ch_idx + 1]))

MidiSustainNext ==
    /\ MidiAtNote
    /\ \E ne \in {note_events(midi.timelines[midi.ch_idx + 1])} :
          /\ ne[midi.i + 1].sustain /\ midi.i + 1 < Len(ne)
          /\ midi' = NotePair(midi, ne[midi.i + 1],
                        SustainTicks(ne[midi.i + 1], ne[midi.i + 2].time))
    /\ UNCHANGED not_midi

MidiSustainLast ==
    /\ MidiAtNote
    /\ \E ne \in {note_events(midi.timelines[midi.ch_idx + 1])} :
          /\ ne[midi.i + 1].sustain /\ midi.i + 1 >= Len(ne)
          /\ midi' = NotePair(midi, ne[midi.i + 1],
                        SustainTicks(ne[midi.i + 1], midi.song_end))
    /\ UNCHANGED not_midi

MidiPlain ==
    /\ MidiAtNote
    /\ \E ne \in {note_events(midi.timelines[midi.ch_idx + 1])} :
          /\ ~ne[midi.i + 1].sustain
          /\ midi' = NotePair(midi, ne[midi.i + 1],
                        Max(1, Ticks(ne[midi.i + 1].duration)))
    /\ UNCHANGED not_midi

\* tracks.append(_midi_track(events)); next channel
MidiTrackEnd ==
    /\ midi.pc = "tracks" /\ midi.ch_idx < Len(midi.timelines)
    /\ midi.i >= Len(note_events(midi.timelines[midi.ch_idx + 1]))
    /\ midi' = [midi EXCEPT !.ch_idx = @ + 1, !.i = 0]
    /\ UNCHANGED not_midi

\* the file is written
MidiWrite ==
    /\ midi.pc = "tracks" /\ midi.ch_idx >= Len(midi.timelines)
    /\ midi' = [midi EXCEPT !.pc = "done"]
    /\ UNCHANGED not_midi

MaxNotes == 3

\* durations in seconds as build_channel_timeline computes them
\* (frames / 120, frames = dur_value / tempo): none, 0.6, 1.9 and 8 ticks
NoteDurations == { Rat(0, 1), Rat(1, 1600), Rat(19, 9600), Rat(1, 120) }

\* rest, note, sustained note
NoteKinds ==
    { [is_rest |-> TRUE, midi_note |-> None, sustain |-> FALSE],
      [is_rest |-> FALSE, midi_note |-> 60, sustain |-> FALSE],
      [is_rest |-> FALSE, midi_note |-> 60, sustain |-> TRUE] }

RECURSIVE StartTime(_, _)
\* cumulative_frames / 120.0 before event i: the durations before it
StartTime(durs, i) ==
    IF i = 1 THEN RInt(0) ELSE RAdd(StartTime(durs, i - 1), durs[i - 1])

\* build_channel_timeline: each event starts where the one before ends
Timelines ==
    UNION { { [i \in 1..n |->
                 [time |-> StartTime(d, i), duration |-> d[i],
                  is_rest |-> k[i].is_rest, midi_note |-> k[i].midi_note,
                  sustain |-> k[i].sustain]] :
              d \in [1..n -> NoteDurations], k \in [1..n -> NoteKinds] } :
            n \in 0..MaxNotes }

\* a second channel holding one note of 1/60 s
LongChannel ==
    << [time |-> RInt(0), duration |-> Rat(1, 60), is_rest |-> FALSE,
        midi_note |-> 48, sustain |-> FALSE] >>

InitMidi ==
    /\ rom = "main" /\ IdleBut_midi
    /\ \E tl \in Timelines, tls \in {<< >>, << LongChannel >>} :
          midi = [pc |-> "start", timelines |-> << tl >> \o tls,
                  song_end |-> RInt(0), ch_idx |-> 0, i |-> 0,
                  events |-> << >>]

NextMidi ==
    \/ MidiHeader \/ MidiSustainNext \/ MidiSustainLast \/ MidiPlain
    \/ MidiTrackEnd \/ MidiWrite

SpecMidi == InitMidi /\ [][NextMidi]_vars

Clip16(x) ==
    IF RLt(x, RInt(-32768)) THEN RInt(-32768)
    ELSE IF RLt(RInt(32767), x) THEN RInt(32767) ELSE x

\* float -> int16: the fraction is dropped, towards zero
AsInt16(x) == IF x[1] < 0 THEN 0 - ((0 - x[1]) \div x[2]) ELSE x[1] \div x[2]

RECURSIVE MaxAbs(_)
\* np.max(np.abs(arr))
MaxAbs(arr) ==
    IF arr = << >> THEN 0 ELSE Max(Abs(Head(arr)), MaxAbs(Tail(arr)))

RECURSIVE MaxLen(_)
\* max(len(s) for _, s in all_samples)
MaxLen(samples) ==
    IF samples = << >> THEN 0
    ELSE Max(Len(Head(samples).data), MaxLen(Tail(samples)))

\* acc[:slen] += data
AddInto(acc, data) ==
    [i \in 1..Len(acc) |-> acc[i] + (IF i <= Len(data) THEN data[i] ELSE 0)]

\* column c of an array kept as rows: (N,) has one column, (N, 2) two
Column(data, c) == [i \in 1..Len(data) |-> data[i][c]]

\* one ('mono', sdata) entry joins the POKEY group
MixMono ==
    /\ mix.pc = "accumulate" /\ mix.k < Len(mix.all_samples)
    /\ mix.all_samples[mix.k + 1].stype # "stereo"
    /\ mix' = [mix EXCEPT
                 !.n_pokey = @ + 1, !.k = @ + 1,
                 !.pokey_l =
                     AddInto(@, Column(mix.all_samples[mix.k + 1].data, 1))]
    /\ UNCHANGED not_mix

\* one ('stereo', sdata) entry joins the YM group
MixStereo ==
    /\ mix.pc = "accumulate" /\ mix.k < Len(mix.all_samples)
    /\ mix.all_samples[mix.k + 1].stype = "stereo"
    /\ mix' = [mix EXCEPT
                 !.n_ym = @ + 1, !.k = @ + 1,
                 !.ym_l = AddInto(@, Column(mix.all_samples[mix.k + 1].data, 1)),
                 !.ym_r = AddInto(@, Column(mix.all_samples[mix.k + 1].data, 2))]
    /\ UNCHANGED not_mix

\* pokey_peak (pokey_r is a copy of pokey_l) and ym_peak
pokey_peak(m) == IF m.n_pokey > 0 THEN MaxAbs(m.pokey_l) ELSE 0
ym_peak(m) ==
    IF m.n_ym > 0 THEN Max(MaxAbs(m.ym_l), MaxAbs(m.ym_r)) ELSE 0

\* the scales with the single-group target used in every case
GroupScale_single(target, peak) ==
    IF peak > 0 THEN Rat(29000, peak) ELSE RInt(0)

\* (target / peak) if peak > 0 else 0.0
GroupScale(target, peak) == IF peak > 0 THEN Rat(target, peak) ELSE RInt(0)

\* the scales of the two groups
MixScale ==
    /\ mix.pc = "accumulate" /\ mix.k >= Len(mix.all_samples)
    /\ mix' = [mix EXCEPT
                 !.pc = "scaled",
                 !.pk_scale =
                     IF mix.n_pokey > 0 /\ mix.n_ym > 0
                     THEN GroupScale(16000, pokey_peak(mix))
                     ELSE IF mix.n_pokey > 0
                     THEN GroupScale(29000, pokey_peak(mix))
                     ELSE RInt(0),
                 !.ym_scale =
                     IF mix.n_pokey > 0 /\ mix.n_ym > 0
                     THEN GroupScale(16000, ym_peak(mix))
                     ELSE IF mix.n_pokey > 0 THEN RInt(0)
                     ELSE GroupScale(29000, ym_peak(mix))]
    /\ UNCHANGED not_mix

\* np.clip(pokey * pk_scale + ym * ym_scale, -32768, 32767).astype(np.int16)
MixOf(m, p, y) ==
    AsInt16(Clip16(RAdd(RMulInt(m.pk_scale, p), RMulInt(m.ym_scale, y))))

\* has_stereo: two columns are written
MixWriteStereo ==
    /\ mix.pc = "scaled" /\ mix.n_ym > 0
    /\ mix' = [mix EXCEPT
                 !.pc = "written",
                 !.mixed = [i \in 1..Len(mix.pokey_l) |->
                               << MixOf(mix, mix.pokey_l[i], mix.ym_l[i]),
                                  MixOf(mix, mix.pokey_l[i], mix.ym_r[i]) >>]]
    /\ UNCHANGED not_mix

\* no stereo entry: one column is written
MixWriteMono ==
    /\ mix.pc = "scaled" /\ mix.n_ym = 0
    /\ mix' = [mix EXCEPT
                 !.pc = "written",
                 !.mixed = [i \in 1..Len(mix.pokey_l) |->
                               << MixOf(mix, mix.pokey_l[i], mix.ym_l[i]) >>]]
    /\ UNCHANGED not_mix

MaxSamples == 2
MaxPokey == 2

\* sample values of a rendered POKEY channel and (left, right) pairs of the
\* rendered FM audio
MonoValues == { <<-3>>, <<0>>, <<2>> }
StereoValues == { <<0, 0>>, <<2, -3>>, <<-1, 1>> }

\* non-empty arrays: only those are appended to all_samples
MonoArrays == UNION { [1..n -> MonoValues] : n \in 1..MaxSamples }
StereoArrays == UNION { [1..n -> StereoValues] : n \in 1..MaxSamples }

RECURSIVE MonoLists(_)
\* the entries of n POKEY channels
MonoLists(n) ==
    IF n = 0 THEN { << >> }
    ELSE { Append(l, [stype |-> "mono", data |-> a]) :
             l \in MonoLists(n - 1), a \in MonoArrays }

\* all_samples: the POKEY entries, then at most one FM entry; not empty
MixInputs ==
    { l \o s :
        l \in UNION { MonoLists(n) : n \in 0..MaxPokey },
        s \in { << >> } \cup
              { << [stype |-> "stereo", data |-> a] >> : a \in StereoArrays }
    } \ { << >> }

InitMix ==
    /\ rom = "main" /\ IdleBut_mix
    /\ \E samples \in MixInputs :
          mix = [pc |-> "accumulate", all_samples |-> samples, k |-> 0,
                 pokey_l |-> [i \in 1..MaxLen(samples) |-> 0],
                 ym_l |-> [i \in 1..MaxLen(samples) |-> 0],
                 ym_r |-> [i \in 1..MaxLen(samples) |-> 0],
                 n_pokey |-> 0, n_ym |-> 0,
                 pk_scale |-> RInt(0), ym_scale |-> RInt(0),
                 mixed |-> << >>]

NextMix ==
    MixMono \/ MixStereo \/ MixScale \/ MixWriteStereo \/ MixWriteMono

SpecMix == InitMix /\ [][NextMix]_vars

(***************************************************************************)
(* Properties of the mix                                                   *)
(***************************************************************************)
\* largest magnitude of the PCM written
MixedPeak ==
    MaxAbs([i \in 1..Len(mix.mixed) |->
              Max(Abs(mix.mixed[i][1]),
                  Abs(mix.mixed[i][Len(mix.mixed[i])]))])

\* largest magnitude of a group after scaling
ScaledPeak(scale, peak) == RMulInt(scale, peak)

\* C20: the PCM written never exceeds a peak of 32000 and lies within
\* [-32768, 32767]; with both groups present every group that is not
\* silent is scaled to a peak of 16000, with one group present it is
\* scaled to a peak of 29000 (a group of zeros stays zero).
C20_PeakBounded ==
    mix.pc = "written" =>
        /\ MixedPeak <= 32000
        /\ \A i \in 1..Len(mix.mixed) : \A c \in 1..Len(mix.mixed[i]) :
              mix.mixed[i][c] \in -32768..32767
        /\ Len(mix.mixed) = MaxLen(mix.all_samples)
        /\ LET target == IF mix.n_pokey > 0 /\ mix.n_ym > 0
                         THEN 16000 ELSE 29000
           IN  /\ pokey_peak(mix) > 0 =>
                     ScaledPeak(mix.pk_scale, pokey_peak(mix)) = RInt(target)
               /\ ym_peak(mix) > 0 =>
                     ScaledPeak(mix.ym_scale, ym_peak(mix)) = RInt(target)
               /\ MixedPeak <= (IF mix.n_pokey > 0 /\ mix.n_ym > 0
                                THEN 32000 ELSE 29000)

\* both groups present, their peaks on the same sample with the same sign:
\* the PCM written peaks at 32000
C20_Witness ==
    /\ mix.pc = "written" /\ mix.n_pokey = 2 /\ mix.n_ym = 1
    /\ pokey_peak(mix) > 0 /\ ym_peak(mix) > 0
    /\ MixedPeak = 32000

(***************************************************************************)
(* TMS5220Emulator.synthesize: frames, counters and talk flags (the        *)
(* lattice filter, which only determines the sample values, is left out)   *)
(***************************************************************************)
subc_reload == 1

\* bit number p of the stream: LSB first within a byte, 0 past the end
StreamBit(data, p) ==
    IF p \div 8 < Len(data) THEN Bit(data[(p \div 8) + 1], p % 8) ELSE 0

RECURSIVE _read_bits(_, _, _)
\* _read_bits(count) with the cursor at bit p: first bit read is the MSB
_read_bits(data, p, count) ==
    IF count = 0 THEN 0
    ELSE 2 * _read_bits(data, p, count - 1) + StreamBit(data, p + count - 1)

\* bits of the K indices 0..3 and 4..9 (TMS5220_KBITS)
KBitsLow == 18
KBitsHigh == 21

\* _parse_frame: the energy and pitch indices read and the cursor moved
\* past the frame (the K indices only feed the filter)
_parse_frame(t) ==
    LET e   == _read_bits(t.data, t.pos, 4)
        rep == _read_bits(t.data, t.pos + 4, 1)
        p   == _read_bits(t.data, t.pos + 5, 6)
    IN  IF e = 0 \/ e = 15
        THEN [t EXCEPT !.new_frame_energy_idx = e, !.pos = @ + 4]
        ELSE [t EXCEPT !.new_frame_energy_idx = e,
                       !.new_frame_pitch_idx = p,
                       !.pos = IF rep = 1 THEN @ + 11
                               ELSE IF p = 0 THEN @ + 11 + KBitsLow
                               ELSE @ + 11 + KBitsLow + KBitsHigh]

\* no energy index stops the speech
StopFrame_never(t) == FALSE

\* if self.new_frame_energy_idx == 0xF
StopFrame(t) == t.new_frame_energy_idx = 15

\* the stop frame clears TALK and SPEN
Stopped(t) ==
    IF StopFrame(t) THEN [t EXCEPT !.TALK = FALSE, !.SPEN = FALSE] ELSE t

\* only a change of the voicing class inhibits interpolation
Inhibited_voicing(t) ==
    [t EXCEPT !.inhibit = (t.new_frame_pitch_idx = 0) # t.OLDP]

\* old_uv, old_si, new_uv, new_si and the inhibit flag of the parsed frame
Inhibited(t) ==
    LET old_uv == t.OLDP
        old_si == t.OLDE
        new_uv == t.new_frame_pitch_idx = 0
        new_si == t.new_frame_energy_idx = 0
    IN  [t EXCEPT !.inhibit = \/ ~old_uv /\ new_uv
                              \/ old_uv /\ ~new_uv
                              \/ old_si /\ ~new_si
                              \/ old_uv /\ new_si]

\* the talking branch latches OLDE and OLDP when IP 7 ends
Latched(t) ==
    IF t.subcycle + 1 = 2 /\ t.PC = 12 /\ t.IP = 7
    THEN [t EXCEPT !.OLDE = t.new_frame_energy_idx = 0,
                   !.OLDP = t.new_frame_pitch_idx = 0]
    ELSE t

\* PC wraps one step early
Counters_short(t) ==
    IF t.subcycle + 1 = 2 /\ t.PC = 11
    THEN [t EXCEPT
            !.TALKD = IF t.IP = 7 THEN t.TALK ELSE @,
            !.TALK = IF t.IP = 7 /\ ~t.TALK /\ t.SPEN THEN TRUE ELSE @,
            !.subcycle = subc_reload, !.PC = 0, !.IP = (t.IP + 1) % 8]
    ELSE IF t.subcycle + 1 = 3
    THEN [t EXCEPT !.subcycle = subc_reload, !.PC = @ + 1]
    ELSE [t EXCEPT !.subcycle = @ + 1]

\* "Update counters", the same in the talking and the waiting branch
Counters(t) ==
    IF t.subcycle + 1 = 2 /\ t.PC = 12
    THEN [t EXCEPT
            !.TALKD = IF t.IP = 7 THEN t.TALK ELSE @,
            !.TALK = IF t.IP = 7 /\ ~t.TALK /\ t.SPEN THEN TRUE ELSE @,
            !.subcycle = subc_reload, !.PC = 0, !.IP = (t.IP + 1) % 8]
    ELSE IF t.subcycle + 1 = 3
    THEN [t EXCEPT !.subcycle = subc_reload, !.PC = @ + 1]
    ELSE [t EXCEPT !.subcycle = @ + 1]

\* samples.append(...)
Sampled(t) == [t EXCEPT !.n = @ + 1]

\* twice the bound
max_samples_double(t) == Len(t.data) * 8 * 100

\* max_samples = len(data_bytes) * 8 * 50
max_samples(t) == Len(t.data) * 8 * 50

\* synthesize up to its loop
TmsStart ==
    /\ tms.status = "called"
    /\ tms' = IF tms.data = << >> THEN [tms EXCEPT !.status = "returned"]
              ELSE [tms EXCEPT !.status = "running", !.SPEN = TRUE,
                               !.TALK = TRUE, !.TALKD = TRUE,
                               !.OLDE = TRUE, !.OLDP = TRUE]
    /\ UNCHANGED not_tms

TmsLooping == tms.status = "running" /\ tms.n < max_samples(tms)

\* IP = 0, PC = 12, subcycle = 1: a frame is parsed, then a sample is made
TmsNewFrame ==
    /\ TmsLooping /\ tms.TALKD
    /\ tms.IP = 0 /\ tms.PC = 12 /\ tms.subcycle = 1
    /\ \E t \in {_parse_frame(tms)} :
          tms' = Counters(Sampled(
                    [Inhibited(Stopped(t)) EXCEPT
                        !.stop_n = IF t.new_frame_energy_idx = 15 /\ @ = None
                                   THEN tms.n ELSE @]))
    /\ UNCHANGED not_tms

\* any other sample while TALKD is set
TmsSample ==
    /\ TmsLooping /\ tms.TALKD
    /\ ~(tms.IP = 0 /\ tms.PC = 12 /\ tms.subcycle = 1)
    /\ tms' = Counters(Latched(Sampled(tms)))
    /\ UNCHANGED not_tms

\* TALKD clear: the counters run, and the loop is left once TALK and SPEN
\* are clear as well
TmsWait ==
    /\ TmsLooping /\ ~tms.TALKD
    /\ \E t \in {Counters(tms)} :
          tms' = IF ~t.TALK /\ ~t.SPEN /\ ~t.TALKD
                 THEN [t EXCEPT !.status = "returned"] ELSE t
    /\ UNCHANGED not_tms

\* while len(samples) < max_samples fails
TmsLimit ==
    /\ tms.status = "running" /\ tms.n >= max_samples(tms)
    /\ tms' = [tms EXCEPT !.status = "returned"]
    /\ UNCHANGED not_tms

MaxBytes == 2

\* bytes whose low and high nibble hold the energy indices 0, 15 and 1
\* (0x08: energy 1; 0x18: energy 1 with the repeat flag)
SpeechBytes == {0, 15, 240, 8, 24, 255}

Phrase1 == << 24, 160, 40, 71, 65, 162, 15 >>

Phrase2 == << 24, 128, 7 >>

Phrase3 == << 24, 5, 10, 60 >>

\* repeat frames (energy, pitch) with silent frames (energy 0) between and
\* a stop frame: unvoiced, voiced, voiced, silent, voiced, stop;
\* unvoiced, silent, stop; voiced, silent, unvoiced, stop
SpeechPhrases == { Phrase1, Phrase2, Phrase3 }

SpeechData == UNION { [1..n -> SpeechBytes] : n \in 0..MaxBytes } \cup SpeechPhrases

InitTms ==
    /\ rom = "main" /\ IdleBut_tms
    /\ \E data \in SpeechData :
          tms = [status |-> "called", data |-> data, pos |-> 0, IP |-> 0,
                 PC |-> 0, subcycle |-> subc_reload, SPEN |-> FALSE,
                 TALK |-> FALSE, TALKD |-> FALSE,
                 new_frame_energy_idx |-> 0, new_frame_pitch_idx |-> 0,
                 n |-> 0, stop_n |-> None, OLDE |-> TRUE, OLDP |-> TRUE,
                 inhibit |-> FALSE]

NextTms == TmsStart \/ TmsNewFrame \/ TmsSample \/ TmsWait \/ TmsLimit

SpecTms == InitTms /\ [][NextTms]_vars

\* the loop of synthesize keeps running until it is left
FairTms == SpecTms /\ WF_vars(NextTms)

(***************************************************************************)
(* Properties of the speech chip                                           *)
(***************************************************************************)
\* C16: from the parsing of a frame with energy index 15 on (stop_n is the
\* number of samples made before it), TALK and SPEN are clear and stay
\* clear, TALKD stays set until the counters wrap at the end of that frame
\* (IP back to 0) and is clear from then on, at most 200 more samples are
\* made, and once TALKD is clear no sample is appended any more.
C16_Drains ==
    /\ [](tms.stop_n # None =>
            /\ ~tms.TALK /\ ~tms.SPEN
            /\ tms.TALKD <=> tms.IP # 0
            /\ tms.n - tms.stop_n <= 200
            /\ ~tms.TALKD => tms.n - tms.stop_n = 176)
    /\ [][tms.stop_n # None /\ ~tms.TALKD =>
            tms'.n = tms.n /\ tms'.status = "returned"]_vars

\* the stop frame was the second frame (parsed after 224 samples);
\* synthesize returned 176 samples later, at the end of that frame
C16_Witness ==
    /\ tms.status = "returned" /\ tms.stop_n = 224 /\ tms.n = 400
    /\ ~tms.TALK /\ ~tms.SPEN /\ ~tms.TALKD


\* the step parses a frame (every frame moves the cursor)
FrameStep == tms.status = "running" /\ tms'.pos # tms.pos

\* C34 as stated: the frame just parsed sets inhibit iff its voicing class
\* (pitch index 0 or not) differs from the one latched for the previous
\* frame, and clears it otherwise.
C34_Original ==
    [][FrameStep =>
          (tms'.inhibit <=> ((tms'.new_frame_pitch_idx = 0) # tms.OLDP))]_vars

\* C34: when a frame is parsed OLDP and OLDE tell whether the pitch and
\* energy index registers left by the previous frame are 0 (both set before
\* the first frame), and inhibit is set iff the voicing class of the new
\* frame differs from OLDP, or the previous frame was silent and the new
\* one is not, or the previous frame was unvoiced and the new one is
\* silent; otherwise it is cleared.
C34_Inhibit ==
    [][FrameStep =>
          /\ tms.pos = 0 => tms.OLDP /\ tms.OLDE
          /\ tms.pos > 0 =>
                /\ tms.OLDP <=> tms.new_frame_pitch_idx = 0
                /\ tms.OLDE <=> tms.new_frame_energy_idx = 0
          /\ tms'.OLDP = tms.OLDP /\ tms'.OLDE = tms.OLDE
          /\ tms'.inhibit <=>
                \/ (tms'.new_frame_pitch_idx = 0) # tms.OLDP
                \/ tms.OLDE /\ tms'.new_frame_energy_idx # 0
                \/ tms.OLDP /\ tms'.new_frame_energy_idx = 0]_vars

\* a voiced frame after a silent one whose pitch register was voiced too:
\* inhibit is set although the voicing class did not change
C34_Witness ==
    /\ tms.data = Phrase1 /\ tms.pos = 48 /\ tms.IP = 1 /\ tms.PC = 0
    /\ tms.inhibit /\ tms.OLDE /\ ~tms.OLDP /\ tms.new_frame_pitch_idx = 5

\* a voiced frame after a voiced one: inhibit is cleared
C34_WitnessCleared ==
    /\ tms.data = Phrase1 /\ tms.pos = 33 /\ tms.IP = 1 /\ tms.PC = 0
    /\ ~tms.inhibit /\ ~tms.OLDE /\ ~tms.OLDP /\ tms.new_frame_pitch_idx = 5

\* the sample slot of the counters within a frame of 200 samples
Slot(t) == 25 * t.IP + 2 * t.PC + t.subcycle - 1

\* C35: IP is in 0..7, PC in 0..12 and subcycle in {1, 2}; while TALKD is
\* set every pass of the loop appends one sample and the counters follow
\* the sample count, so that a frame is parsed exactly at the samples
\* 24, 224, 424, ... where IP = 0, PC = 12 and subcycle = 1; while TALKD is
\* clear no sample is appended.
C35_Schedule ==
    /\ [](/\ tms.IP \in 0..7 /\ tms.PC \in 0..12 /\ tms.subcycle \in {1, 2}
          /\ tms.status # "idle" /\ tms.TALKD => tms.n % 200 = Slot(tms))
    /\ [][tms.status = "running" =>
            /\ tms.TALKD /\ tms.n < max_samples(tms) => tms'.n = tms.n + 1
            /\ ~tms.TALKD => tms'.n = tms.n
            /\ tms'.pos # tms.pos <=>
                  /\ tms.TALKD /\ tms.n < max_samples(tms)
                  /\ tms.IP = 0 /\ tms.PC = 12 /\ tms.subcycle = 1]_vars

\* the third frame was parsed on the sample before
C35_Witness ==
    /\ tms.status = "running" /\ tms.TALKD /\ tms.data = Phrase3
    /\ tms.n = 425 /\ tms.pos = 26 /\ tms.IP = 1 /\ tms.PC = 0
    /\ tms.subcycle = 1

\* C39: synthesize returns for every byte string, with no more than
\* len(data) * 400 samples, and a frame parsed past the end of the data
\* reads the energy index 0 and moves the cursor by its four bits.
C39_Terminates ==
    /\ <>(tms.status = "returned")
    /\ [](tms.n <= Len(tms.data) * 400)
    /\ [][FrameStep /\ tms.pos >= 8 * Len(tms.data) =>
            /\ tms'.new_frame_energy_idx = 0
            /\ tms'.pos = tms.pos + 4
            /\ tms'.status = "running"]_vars

\* no stop frame: the loop was left at the sample limit after frames read
\* past the end of the data
C39_Witness ==
    /\ tms.status = "returned" /\ tms.stop_n = None /\ tms.data = << 24, 24 >>
    /\ tms.n = 800 /\ tms.pos > 16 /\ tms.TALKD

\* a stop frame: the loop was left through its break
C39_WitnessStop ==
    /\ tms.status = "returned" /\ tms.stop_n # None /\ ~tms.TALKD
    /\ tms.n < Len(tms.data) * 400

(***************************************************************************)
(* POKEYEmulator: reset, write and render                                  *)
(***************************************************************************)
FREQ_17_EXACT == 1789790
DEFAULT_GAIN == 744
DIV_64 == 28
DIV_15 == 114

\* AUDC bits NOTPOLY5, POLY4, PURE, VOLUME_ONLY and AUDCTL bits POLY9,
\* CH1_HICLK, CH3_HICLK, CH12_JOINED, CH34_JOINED, CH1_FILTER, CH2_FILTER,
\* CLK_15KHZ, as bit numbers
NOTPOLY5 == 7
POLY4 == 6
PURE == 5
VOLUME_ONLY == 4
POLY9 == 7
CH1_HICLK == 6
CH3_HICLK == 5
CH12_JOINED == 4
CH34_JOINED == 3
CH1_FILTER == 2
CH2_FILTER == 1
CLK_15KHZ == 0

\* reset(): channels are numbered 0..3 as in the code
PokeyReset ==
    [ch_AUDF |-> [ch \in 0..3 |-> 0], ch_AUDC |-> [ch \in 0..3 |-> 176],
     ch_counter |-> [ch \in 0..3 |-> 0], ch_borrow_cnt |-> [ch \in 0..3 |-> 0],
     ch_output |-> [ch \in 0..3 |-> 0],
     ch_filter_sample |-> [ch \in 0..3 |-> IF ch < 2 THEN 1 ELSE 0],
     AUDCTL |-> 0, SKCTL |-> 3, p4 |-> 0, p5 |-> 0, p9 |-> 0, p17 |-> 0,
     clock_cnt |-> [k \in 0..2 |-> 0], out_raw |-> 0, old_raw_inval |-> TRUE]

\* write(addr, data)
PokeyWrite(c, addr, data) ==
    LET reg == addr % 16
    IN  IF reg \in {0, 2, 4, 6}
        THEN [c EXCEPT !.ch_AUDF[reg \div 2] = data]
        ELSE IF reg \in {1, 3, 5, 7}
        THEN [c EXCEPT !.ch_AUDC[reg \div 2] = data, !.old_raw_inval = TRUE]
        ELSE IF reg = 8
        THEN IF data # c.AUDCTL
             THEN [c EXCEPT !.AUDCTL = data, !.old_raw_inval = TRUE] ELSE c
        ELSE IF reg = 9
        THEN [c EXCEPT !.ch_counter = [ch \in 0..3 |-> 255 - c.ch_AUDF[ch]],
                       !.ch_borrow_cnt = [ch \in 0..3 |-> 0],
                       !.ch_output = [ch \in 0..3 |-> 0],
                       !.ch_filter_sample =
                            [ch \in 0..3 |-> IF ch < 2 THEN 1 ELSE 0],
                       !.old_raw_inval = TRUE]
        ELSE IF reg = 15 THEN [c EXCEPT !.SKCTL = data]
        ELSE c

RECURSIVE PolySteps(_, _, _)
\* n iterations of the table loop from lfsr, as the first half of them
\* followed by the rest (the test of lfsr, never negative, has it
\* evaluated first)
PolySteps(size, lfsr, n) ==
    IF n = 0 \/ lfsr < 0 THEN lfsr
    ELSE IF n = 1 THEN PolyStep(size, lfsr)
    ELSE PolySteps(size, PolySteps(size, lfsr, n \div 2), n - n \div 2)

\* poly4[i], poly5[i], poly9[i], poly17[i]: the lfsr after i + 1 steps
PolyEntry(size, i) == PolySteps(size, PolyStart(size), i + 1)

\* poly4_bits[i] etc.: x & 1
PolyBits(size, i) == PolyEntry(size, i) % 2

\* _reset_channel(ch)
_reset_channel(c, ch) ==
    [c EXCEPT !.ch_counter[ch] = 255 - c.ch_AUDF[ch], !.ch_borrow_cnt[ch] = 0]

\* _inc_chan(ch, borrow_cycles)
_inc_chan(c, ch, borrow_cycles) ==
    [c EXCEPT !.ch_counter[ch] = (@ + 1) % 256,
              !.ch_borrow_cnt[ch] =
                  IF (c.ch_counter[ch] + 1) % 256 = 0 /\ @ = 0
                  THEN borrow_cycles ELSE @]

\* _process_channel(ch) without `self.old_raw_inval = True`
_process_channel_stale(c, ch) ==
    IF Bit(c.ch_AUDC[ch], NOTPOLY5) = 1 \/ PolyBits(5, c.p5) = 1
    THEN [c EXCEPT !.ch_output[ch] =
                      IF Bit(c.ch_AUDC[ch], PURE) = 1 THEN 1 - @
                      ELSE IF Bit(c.ch_AUDC[ch], POLY4) = 1
                      THEN PolyBits(4, c.p4)
                      ELSE IF Bit(c.AUDCTL, POLY9) = 1 THEN PolyBits(9, c.p9)
                      ELSE PolyBits(17, c.p17)]
    ELSE c

\* _process_channel(ch)
_process_channel(c, ch) ==
    IF Bit(c.ch_AUDC[ch], NOTPOLY5) = 1 \/ PolyBits(5, c.p5) = 1
    THEN [c EXCEPT !.ch_output[ch] =
                      IF Bit(c.ch_AUDC[ch], PURE) = 1 THEN 1 - @
                      ELSE IF Bit(c.ch_AUDC[ch], POLY4) = 1
                      THEN PolyBits(4, c.p4)
                      ELSE IF Bit(c.AUDCTL, POLY9) = 1 THEN PolyBits(9, c.p9)
                      ELSE PolyBits(17, c.p17),
                  !.old_raw_inval = TRUE]
    ELSE c

\* "Advance polynomial counters" and "Prescaler clocks"
PokeyAdvance(c) ==
    [c EXCEPT !.p4 = (@ + 1) % 15, !.p5 = (@ + 1) % 31,
              !.p9 = (@ + 1) % 511, !.p17 = (@ + 1) % 131071,
              !.clock_cnt[1] = IF @ + 1 >= DIV_64 THEN 0 ELSE @ + 1,
              !.clock_cnt[2] = IF @ + 1 >= DIV_15 THEN 0 ELSE @ + 1]

\* base_clk, after the prescalers ran: a prescaler fired iff it is back at 0
base_clk(c) ==
    IF Bit(c.AUDCTL, CLK_15KHZ) = 1 THEN c.clock_cnt[2] = 0
    ELSE c.clock_cnt[1] = 0

\* "Channel 1 clocking" (ch = 0) and "Channel 3 clocking" (ch = 2)
PokeyClockHi(c, ch, hiclk, joined) ==
    IF Bit(c.AUDCTL, hiclk) = 1
    THEN _inc_chan(c, ch, IF Bit(c.AUDCTL, joined) = 1 THEN 7 ELSE 4)
    ELSE IF base_clk(c) THEN _inc_chan(c, ch, 1) ELSE c

\* "Channels 2 and 4 at base clock": one of them
PokeyClockLo(c, ch, joined) ==
    IF base_clk(c) /\ Bit(c.AUDCTL, joined) = 0 THEN _inc_chan(c, ch, 1)
    ELSE c

\* ch_filter_sample[f] after a borrow of channel 3 or 4
PokeyFilter(c, f, bit) ==
    [c EXCEPT !.ch_filter_sample[f] =
                  IF Bit(c.AUDCTL, bit) = 1 THEN c.ch_output[f] ELSE 1,
              !.old_raw_inval = TRUE]

\* ch_borrow_cnt[ch] -= 1
PokeyCountDown(c, ch) == [c EXCEPT !.ch_borrow_cnt[ch] = @ - 1]

\* "Check borrows - Channel 3" with the joined case resetting channel 3
\* as the other case does
PokeyBorrow3_reset(c) ==
    IF c.ch_borrow_cnt[2] = 0 THEN c
    ELSE IF c.ch_borrow_cnt[2] > 1 THEN PokeyCountDown(c, 2)
    ELSE PokeyFilter(_process_channel(_reset_channel(c, 2), 2),
                     0, CH1_FILTER)

\* "Check borrows - Channel 3"
PokeyBorrow3(c) ==
    IF c.ch_borrow_cnt[2] = 0 THEN c
    ELSE IF c.ch_borrow_cnt[2] > 1 THEN PokeyCountDown(c, 2)
    ELSE PokeyFilter(
            _process_channel(
                IF Bit(c.AUDCTL, CH34_JOINED) = 1
                THEN _inc_chan(PokeyCountDown(c, 2), 3, 1)
                ELSE _reset_channel(c, 2), 2),
            0, CH1_FILTER)

\* "Check borrows - Channel 4"
PokeyBorrow4(c) ==
    IF c.ch_borrow_cnt[3] = 0 THEN c
    ELSE IF c.ch_borrow_cnt[3] > 1 THEN PokeyCountDown(c, 3)
    ELSE PokeyFilter(
            _process_channel(
                _reset_channel(
                    IF Bit(c.AUDCTL, CH34_JOINED) = 1
                    THEN _reset_channel(c, 2) ELSE c, 3), 3),
            1, CH2_FILTER)

\* "Check borrows - Channel 1"
PokeyBorrow1(c) ==
    IF c.ch_borrow_cnt[0] = 0 THEN c
    ELSE IF c.ch_borrow_cnt[0] > 1 THEN PokeyCountDown(c, 0)
    ELSE _process_channel(
            IF Bit(c.AUDCTL, CH12_JOINED) = 1
            THEN _inc_chan(PokeyCountDown(c, 0), 1, 1)
            ELSE _reset_channel(c, 0), 0)

\* "Check borrows - Channel 2"
PokeyBorrow2(c) ==
    IF c.ch_borrow_cnt[1] = 0 THEN c
    ELSE IF c.ch_borrow_cnt[1] > 1 THEN PokeyCountDown(c, 1)
    ELSE _process_channel(
            _reset_channel(
                IF Bit(c.AUDCTL, CH12_JOINED) = 1
                THEN _reset_channel(c, 0) ELSE c, 1), 1)

\* the nibble of channel ch in raw
PokeyAudible(c, ch) ==
    IF c.ch_output[ch] # c.ch_filter_sample[ch]
       \/ Bit(c.ch_AUDC[ch], VOLUME_ONLY) = 1
    THEN c.ch_AUDC[ch] % 16 ELSE 0

\* "Update raw output"
PokeyUpdateRaw(c) ==
    IF c.old_raw_inval
    THEN [c EXCEPT !.out_raw = PokeyAudible(c, 0) + 16 * PokeyAudible(c, 1)
                               + 256 * PokeyAudible(c, 2)
                               + 4096 * PokeyAudible(c, 3),
                   !.old_raw_inval = FALSE]
    ELSE c

\* _step_one_clock, as inlined in render (the chip is not in reset)
_step_one_clock(c) ==
    PokeyUpdateRaw(PokeyBorrow2(PokeyBorrow1(PokeyBorrow4(PokeyBorrow3(
        PokeyClockLo(PokeyClockLo(
            PokeyClockHi(PokeyClockHi(PokeyAdvance(c), 0, CH1_HICLK,
                                      CH12_JOINED),
                         2, CH3_HICLK, CH34_JOINED),
            1, CH12_JOINED), 3, CH34_JOINED))))))

\* vol: the sum of the four nibbles of out_raw
PokeyVol(c) ==
    (c.out_raw % 16) + ((c.out_raw \div 16) % 16)
    + ((c.out_raw \div 256) % 16) + ((c.out_raw \div 4096) % 16)

\* total += vol * gain, after the clock
PokeyTotal(st) ==
    [st EXCEPT !.total = @ + PokeyVol(st.chip) * DEFAULT_GAIN]

\* one pass of "for _ in range(clocks_this)"
PokeyTick(st) == PokeyTotal([st EXCEPT !.chip = _step_one_clock(@)])

RECURSIVE PokeyClocks(_, _)
\* for _ in range(clocks_this), as the first half of the passes followed
\* by the rest (the test of st.total, never negative, has st evaluated
\* first)
PokeyClocks(st, k) ==
    IF k = 0 \/ st.total < 0 THEN st
    ELSE IF k = 1 THEN PokeyTick(st)
    ELSE PokeyClocks(PokeyClocks(st, k \div 2), k - k \div 2)

\* max(-32768, min(32767, s))
PokeyClip(s) == Max(-32768, Min(32767, s))

\* the clocks of one sample are done: samples[i] = s
PokeyStore(st, clocks_this) ==
    [st EXCEPT !.samples =
        Append(@, PokeyClip(IF clocks_this > 0 THEN st.total \div clocks_this
                            ELSE PokeyVol(st.chip) * DEFAULT_GAIN)),
               !.total = 0]

\* clock_accum += clocks_per_sample has been done and is the accum passed;
\* clocks_this = int(clock_accum); clock_accum -= clocks_this
PokeySample(st, accum) ==
    IF Bit(st.chip.SKCTL, 0) = 0 /\ Bit(st.chip.SKCTL, 1) = 0
    THEN [st EXCEPT !.samples =
                        Append(@, PokeyClip(PokeyVol(st.chip) * DEFAULT_GAIN)),
                    !.clock_accum = RSub(accum, RInt(RFloor(accum)))]
    ELSE [PokeyStore(PokeyClocks(st, RFloor(accum)), RFloor(accum))
             EXCEPT !.clock_accum = RSub(accum, RInt(RFloor(accum)))]

RECURSIVE PokeyLoop(_, _, _)
\* for i in range(num_samples); st is evaluated as in PokeyClocks
PokeyLoop(st, num, rate) ==
    IF num = 0 \/ st.total < 0 THEN st
    ELSE PokeyLoop(
            PokeySample(st, RAdd(st.clock_accum, Rat(FREQ_17_EXACT, rate))),
            num - 1, rate)

\* render(num_samples, sample_rate): the chip state written back and the
\* samples returned; clock_accum starts at 0.0 in every call
PokeyRender(c, num_samples, rate) ==
    PokeyLoop([chip |-> c, total |-> 0, samples |-> << >>,
               clock_accum |-> RInt(0)], num_samples, rate)

\* register writes of the emulators under test: AUDC1 = $AF (pure tone,
\* volume 15), AUDC2 = $0F (poly5 and poly17 noise, volume 15),
\* AUDCTL = $40 (channel 1 at 1.79 MHz), STIMER
PokeyWrites == { <<1, 175>>, <<3, 15>>, <<8, 64>>, <<9, 0>> }

MaxPokeyWrites == 2
MaxPokeyRender == 2

\* both emulators get the same write
PkWrite ==
    /\ pk.status = "setup" /\ Len(pk.writes) < MaxPokeyWrites
    /\ \E w \in PokeyWrites :
          pk' = [pk EXCEPT !.A = PokeyWrite(@, w[1], w[2]),
                           !.B = PokeyWrite(@, w[1], w[2]),
                           !.writes = Append(@, w)]
    /\ UNCHANGED not_pk

\* A.render(a + b)
PkWhole ==
    /\ pk.status \in {"setup", "render"} /\ ~pk.rendered
    /\ \E st \in {PokeyRender(pk.A, pk.a + pk.b, sample_rate)} :
          pk' = [pk EXCEPT !.status = "render", !.A = st.chip,
                           !.whole = st.samples, !.rendered = TRUE]
    /\ UNCHANGED not_pk

\* B.render(a)
PkFirst ==
    /\ pk.status \in {"setup", "render"} /\ pk.calls = 0
    /\ \E st \in {PokeyRender(pk.B, pk.a, sample_rate)} :
          pk' = [pk EXCEPT !.status = "render", !.B = st.chip,
                           !.parts = st.samples, !.calls = 1]
    /\ UNCHANGED not_pk

\* B.render(b), with no write since B.render(a)
PkSecond ==
    /\ pk.status = "render" /\ pk.calls = 1
    /\ \E st \in {PokeyRender(pk.B, pk.b, sample_rate)} :
          pk' = [pk EXCEPT !.B = st.chip, !.parts = @ \o st.samples,
                           !.calls = 2]
    /\ UNCHANGED not_pk

\* two emulators after __init__, and the spans a and b to render
PkStart ==
    \E a, b \in 1..MaxPokeyRender :
        pk = [status |-> "setup", a |-> a, b |-> b, A |-> PokeyReset,
              B |-> PokeyReset, writes |-> << >>, rendered |-> FALSE,
              whole |-> << >>, parts |-> << >>, calls |-> 0]

NextPk == PkWrite \/ PkWhole \/ PkFirst \/ PkSecond

(***************************************************************************)
(* POKEYEmulator._step_one_clock, the method, beside the clock loop that   *)
(* render carries inline: two chips given the same writes, M advanced by   *)
(* calls of the method and R by passes of the loop in render               *)
(***************************************************************************)
CLK_1 == 0
CLK_28 == 1
CLK_114 == 2

\* "Advance polynomial counters" and "Prescaler clocks" of the method: the
\* chip and the list clock_triggered
StepPrescale(c) ==
    [chip |-> [c EXCEPT !.p4 = (@ + 1) % 15, !.p5 = (@ + 1) % 31,
                        !.p9 = (@ + 1) % 511, !.p17 = (@ + 1) % 131071,
                        !.clock_cnt[CLK_28] =
                            IF @ + 1 >= DIV_64 THEN 0 ELSE @ + 1,
                        !.clock_cnt[CLK_114] =
                            IF @ + 1 >= DIV_15 THEN 0 ELSE @ + 1],
     clock_triggered |->
        [k \in 0..2 |->
            IF k = CLK_1 THEN 1
            ELSE IF k = CLK_28
            THEN (IF c.clock_cnt[CLK_28] + 1 >= DIV_64 THEN 1 ELSE 0)
            ELSE (IF c.clock_cnt[CLK_114] + 1 >= DIV_15 THEN 1 ELSE 0)]]

\* base_clock = self.CLK_114 if (self.AUDCTL & self.CLK_15KHZ) else self.CLK_28
base_clock(c) == IF Bit(c.AUDCTL, CLK_15KHZ) = 1 THEN CLK_114 ELSE CLK_28

\* "Channel 1 clocking" (ch = 0) and "Channel 3 clocking" (ch = 2) of the
\* method, s being the chip and clock_triggered
StepClockHi(s, ch, hiclk, joined) ==
    IF Bit(s.chip.AUDCTL, hiclk) = 1 /\ s.clock_triggered[CLK_1] = 1
    THEN [s EXCEPT !.chip = _inc_chan(@, ch, IF Bit(@.AUDCTL, joined) = 1
                                             THEN 7 ELSE 4)]
    ELSE IF Bit(s.chip.AUDCTL, hiclk) = 0
            /\ s.clock_triggered[base_clock(s.chip)] = 1
    THEN [s EXCEPT !.chip = _inc_chan(@, ch, 1)]
    ELSE s

\* one of the two `if not joined: self._inc_chan(...)`
PokeyOne(c, ch, joined) ==
    IF Bit(c.AUDCTL, joined) = 0 THEN _inc_chan(c, ch, 1) ELSE c

\* the two `if not joined: self._inc_chan(...)` under the base clock
PokeyBoth(c) ==
    PokeyOne(PokeyOne(c, 1, CH12_JOINED), 3, CH34_JOINED)

\* "Channels 2 and 4 at base clock (when not joined)": the chip alone is
\* needed from here on
StepClockLo(s) ==
    IF s.clock_triggered[base_clock(s.chip)] = 1
    THEN PokeyBoth(s.chip)
    ELSE s.chip

\* _check_borrow(ch): the chip and the value returned
_check_borrow(c, ch) ==
    IF c.ch_borrow_cnt[ch] > 0
    THEN [chip |-> [c EXCEPT !.ch_borrow_cnt[ch] = @ - 1],
          done |-> c.ch_borrow_cnt[ch] - 1 = 0]
    ELSE [chip |-> c, done |-> FALSE]

\* self.ch_filter_sample[f] = ...; self.old_raw_inval = True
StepFilter(c, f, bit) ==
    [c EXCEPT !.ch_filter_sample[f] =
                  IF Bit(c.AUDCTL, bit) = 1 THEN c.ch_output[f] ELSE 1,
              !.old_raw_inval = TRUE]

\* "Check borrows - Channel 3", b being the result of _check_borrow(2)
StepBorrow3(b) ==
    IF ~b.done THEN b.chip
    ELSE StepFilter(
            _process_channel(
                IF Bit(b.chip.AUDCTL, CH34_JOINED) = 1
                THEN _inc_chan(b.chip, 3, 1)
                ELSE _reset_channel(b.chip, 2), 2),
            0, CH1_FILTER)

\* "Check borrows - Channel 4", b being the result of _check_borrow(3)
StepBorrow4(b) ==
    IF ~b.done THEN b.chip
    ELSE StepFilter(
            _process_channel(
                _reset_channel(
                    IF Bit(b.chip.AUDCTL, CH34_JOINED) = 1
                    THEN _reset_channel(b.chip, 2) ELSE b.chip, 3), 3),
            1, CH2_FILTER)

\* "Check borrows - Channel 1", b being the result of _check_borrow(0)
StepBorrow1(b) ==
    IF ~b.done THEN b.chip
    ELSE _process_channel(
            IF Bit(b.chip.AUDCTL, CH12_JOINED) = 1
            THEN _inc_chan(b.chip, 1, 1)
            ELSE _reset_channel(b.chip, 0), 0)

\* "Check borrows - Channel 2", b being the result of _check_borrow(1)
StepBorrow2(b) ==
    IF ~b.done THEN b.chip
    ELSE _process_channel(
            _reset_channel(
                IF Bit(b.chip.AUDCTL, CH12_JOINED) = 1
                THEN _reset_channel(b.chip, 0) ELSE b.chip, 1), 1)

\* audible of "Update raw output" for channel ch
StepAudible(c, ch) ==
    c.ch_output[ch] # c.ch_filter_sample[ch]
    \/ Bit(c.ch_AUDC[ch], VOLUME_ONLY) = 1

\* "Update raw output": raw |= (AUDC & VOLUME_MASK) << (ch * 4)
StepRaw(c) ==
    IF c.old_raw_inval
    THEN [c EXCEPT
            !.out_raw =
                SumSeq([i \in 1..4 |->
                          IF StepAudible(c, i - 1)
                          THEN (c.ch_AUDC[i - 1] % 16) * 16^(i - 1) ELSE 0]),
            !.old_raw_inval = FALSE]
    ELSE c

\* the method: `if not (self.SKCTL & 0x03): return`, then the clock
StepOneClock(c) ==
    IF c.SKCTL % 4 = 0 THEN c
    ELSE StepRaw(
           StepBorrow2(_check_borrow(
             StepBorrow1(_check_borrow(
               StepBorrow4(_check_borrow(
                 StepBorrow3(_check_borrow(
                   StepClockLo(
                     StepClockHi(
                       StepClockHi(StepPrescale(c), 0, CH1_HICLK,
                                   CH12_JOINED),
                       2, CH3_HICLK, CH34_JOINED)), 2)), 3)), 0)), 1)))

\* one pass of `for _ in range(clocks_this)` of render on its locals; with
\* in_reset the loop is never entered (`continue`)
RenderClock(c) == IF c.SKCTL % 4 = 0 THEN c ELSE _step_one_clock(c)

\* clocks made after the writes
MaxClocks == 230
\* AUDF2 = 2; AUDF3 = 1; AUDC1 = $AF (pure tone, volume 15); AUDC2 = $0F
\* (poly5 and poly17 noise); AUDC3 = $18 (volume only, volume 8);
\* AUDC4 = $4A (poly5 and poly4 noise); AUDCTL = $40 (channel 1 at
\* 1.79 MHz), $14 (channels 1+2 joined, filter on channel 1), $2B (channel
\* 3 at 1.79 MHz, channels 3+4 joined, filter on channel 2, 15 kHz base),
\* $86 (poly9, both filters); STIMER; SKCTL = 0 (reset state)
ClockWrites ==
    { <<2, 2>>, <<4, 1>>, <<1, 175>>, <<3, 15>>, <<5, 24>>, <<7, 74>>,
      <<8, 64>>, <<8, 20>>, <<8, 43>>, <<8, 134>>, <<9, 0>>, <<15, 0>> }

\* a write to both chips before the first clock; the registers are
\* written in ascending order, each at most once
ClockWrite ==
    /\ pk.status = "clock" /\ pk.n = 0
    /\ \E w \in ClockWrites :
          /\ pk.writes # << >> => w[1] > pk.writes[Len(pk.writes)][1]
          /\ pk' = [pk EXCEPT !.M = PokeyWrite(@, w[1], w[2]),
                              !.R = PokeyWrite(@, w[1], w[2]),
                              !.writes = Append(@, w), !.ticked = FALSE]
    /\ UNCHANGED not_pk

\* one call of the method on M, one pass of the loop on R
ClockTick ==
    /\ pk.status = "clock" /\ pk.n < MaxClocks
    /\ pk' = [pk EXCEPT !.M = StepOneClock(@), !.R = RenderClock(@),
                        !.n = @ + 1, !.ticked = TRUE]
    /\ UNCHANGED not_pk

InitClock ==
    /\ rom = "main" /\ IdleBut_pk
    /\ pk = [status |-> "clock", M |-> PokeyReset, R |-> PokeyReset,
             writes |-> << >>, n |-> 0, ticked |-> FALSE]

NextClock == ClockWrite \/ ClockTick

SpecClock == InitClock /\ [][NextClock]_vars

(***************************************************************************)
(* Properties of the POKEY clock                                           *)
(***************************************************************************)
\* the 1-bit output of voice ch differs from its filter-sample reference
Differs(c, ch) == c.ch_output[ch] # c.ch_filter_sample[ch]

\* the digital level: the sum of the four nibbles of out_raw
Level(c) == SumSeq([i \in 1..4 |-> (c.out_raw \div 16^(i - 1)) % 16])

\* a clock has just been made on a chip that is not held in reset
Clocked == pk.status = "clock" /\ pk.ticked /\ pk.M.SKCTL % 4 # 0

\* C32 as stated: after every clock the level is the sum of the volume
\* nibbles of exactly the voices whose output differs from the reference
C32_Original ==
    Clocked =>
        \A c \in {pk.M, pk.R} :
            Level(c) = SumSeq([i \in 1..4 |->
                                 IF Differs(c, i - 1)
                                 THEN c.ch_AUDC[i - 1] % 16 ELSE 0])

\* C32, amended: after every clock of a chip that is not held in reset the
\* level is the sum of the volume nibbles of the voices whose output
\* differs from the reference or whose AUDC has the volume-only bit set
C32_Level ==
    Clocked =>
        \A c \in {pk.M, pk.R} :
            Level(c) = SumSeq([i \in 1..4 |->
                                 IF Differs(c, i - 1)
                                    \/ (c.ch_AUDC[i - 1] \div 16) % 2 = 1
                                 THEN c.ch_AUDC[i - 1] % 16 ELSE 0])

\* a pure tone of volume 15 on voice 1, whose output a borrow has flipped
\* to the value of the reference, and noise of volume 15 on voice 2 that
\* differs from its reference: the level counts voice 2 alone
C32_Witness ==
    /\ Clocked /\ pk.M.ch_AUDC[0] = 175 /\ pk.M.ch_AUDC[1] = 15
    /\ pk.M.ch_output[0] = 1 /\ ~Differs(pk.M, 0) /\ Differs(pk.M, 1)
    /\ Level(pk.M) = 15 /\ Level(pk.R) = 15

\* a voice in volume-only mode counted while its output equals the
\* reference
C32_WitnessVolumeOnly ==
    /\ Clocked /\ pk.M.ch_AUDC[2] = 24 /\ ~Differs(pk.M, 2)
    /\ Level(pk.M) = 8

\* C38: after the same writes, k calls of _step_one_clock and k passes of
\* the clock loop inlined in render leave the same chip state: polynomial
\* positions, prescaler counts, channel counters, borrow countdowns,
\* output bits, filter samples, raw level and its invalidation flag
C38_InlineEquivalent ==
    pk.status = "clock" =>
        /\ pk.M = pk.R
        /\ \A f \in {"p4", "p5", "p9", "p17", "clock_cnt", "ch_counter",
                     "ch_borrow_cnt", "ch_output", "ch_filter_sample",
                     "out_raw", "old_raw_inval"} : pk.M[f] = pk.R[f]

\* channels 3+4 joined at 1.79 MHz on the 15 kHz base with the filter on
\* channel 2: both prescalers have fired, channel 3 has carried into
\* channel 4, and a noise bit has been latched on channel 2
C38_Witness ==
    /\ pk.status = "clock" /\ pk.n = MaxClocks /\ pk.M = pk.R
    /\ pk.M.AUDCTL = 43 /\ pk.M.ch_AUDC[1] = 15
    /\ pk.M.ch_counter[3] # 0 /\ pk.M.ch_output[1] = 1
    /\ pk.M.clock_cnt[CLK_114] = MaxClocks % DIV_15

(***************************************************************************)
(* YM2151Emulator: reset, write and render.  The code computes in doubles; *)
(* here phases are counted in 10^-6, sine entries in 10^-7, attenuations   *)
(* in 10^-6 and operator outputs in 10^-9.  The emulators that render      *)
(* samples get no key-on write, so their operators stay in Release.        *)
(***************************************************************************)
RATE == 55930           \* CLOCK // 64, CLOCK = 3579545
PhaseUnit == 10^6
NOTE_FREQ_0 == 1635     \* _NOTE_FREQ[0] = 16.35, in 1/100

\* reset(): operators are numbered 0..31 and channels 0..7 as in the code
YmReset ==
    [op_tl |-> [i \in 0..31 |-> 0], op_mul |-> [i \in 0..31 |-> 0],
     op_dt1 |-> [i \in 0..31 |-> 0], op_rr |-> [i \in 0..31 |-> 0],
     op_ks |-> [i \in 0..31 |-> 0], op_ar |-> [i \in 0..31 |-> 0],
     op_d1r |-> [i \in 0..31 |-> 0], op_d2r |-> [i \in 0..31 |-> 0],
     op_d1l |-> [i \in 0..31 |-> 0], op_dt2 |-> [i \in 0..31 |-> 0],
     op_ams_en |-> [i \in 0..31 |-> 0], op_eg_phase |-> [i \in 0..31 |-> 3],
     op_eg_level |-> [i \in 0..31 |-> 1023],
     op_eg_counter |-> [i \in 0..31 |-> 0], op_phase |-> [i \in 0..31 |-> 0],
     ch_con |-> [ch \in 0..7 |-> 0], ch_fb |-> [ch \in 0..7 |-> 0],
     ch_lr |-> [ch \in 0..7 |-> 3], fb_out_0 |-> [ch \in 0..7 |-> 0],
     fb_out_1 |-> [ch \in 0..7 |-> 0], eg_cnt |-> 0, lfo_counter |-> 0,
     op_key_on |-> [i \in 0..31 |-> FALSE], ch_kc |-> [ch \in 0..7 |-> 0]]

\* _slot_map without the remap of the slot groups
_slot_map_linear(addr) == (addr % 8) + 8 * ((addr \div 8) % 4)

\* _slot_map(addr): remap = [0, 2, 1, 3]
_slot_map(addr) ==
    (addr % 8) + 8 * <<0, 2, 1, 3>>[((addr \div 8) % 4) + 1]

\* every write of a set key-on bit restarts the operator
YmKeyOp_restart(c, data, i) ==
    LET now_on == Bit(data, (i \div 8) + 3) = 1 IN
    IF now_on
    THEN [key_on |-> TRUE, eg_phase |-> 0, eg_level |-> 1023,
          eg_counter |-> 0, phase |-> 0]
    ELSE [key_on |-> FALSE,
          eg_phase |-> IF c.op_key_on[i] THEN 3 ELSE c.op_eg_phase[i],
          eg_level |-> c.op_eg_level[i], eg_counter |-> c.op_eg_counter[i],
          phase |-> c.op_phase[i]]

\* one pass of `for s in range(4)` of the key on/off write, for the
\* operator i = ch + s * 8 (s = i // 8)
YmKeyOp(c, data, i) ==
    LET was_on == c.op_key_on[i]
        now_on == Bit(data, (i \div 8) + 3) = 1
    IN  IF now_on /\ ~was_on
        THEN [key_on |-> now_on, eg_phase |-> 0, eg_level |-> 1023,
              eg_counter |-> 0, phase |-> 0]
        ELSE [key_on |-> now_on,
              eg_phase |-> IF ~now_on /\ was_on THEN 3 ELSE c.op_eg_phase[i],
              eg_level |-> c.op_eg_level[i],
              eg_counter |-> c.op_eg_counter[i], phase |-> c.op_phase[i]]

\* addr == 0x08: key on/off of the operators ch + s * 8 of ch = data & 7
YmKey(c, data) ==
    [c EXCEPT
        !.op_key_on = [i \in 0..31 |->
            IF i % 8 = data % 8 THEN YmKeyOp(c, data, i).key_on ELSE @[i]],
        !.op_eg_phase = [i \in 0..31 |->
            IF i % 8 = data % 8 THEN YmKeyOp(c, data, i).eg_phase ELSE @[i]],
        !.op_eg_level = [i \in 0..31 |->
            IF i % 8 = data % 8 THEN YmKeyOp(c, data, i).eg_level ELSE @[i]],
        !.op_eg_counter = [i \in 0..31 |->
            IF i % 8 = data % 8 THEN YmKeyOp(c, data, i).eg_counter ELSE @[i]],
        !.op_phase = [i \in 0..31 |->
            IF i % 8 = data % 8 THEN YmKeyOp(c, data, i).phase ELSE @[i]]]

\* write(addr, data), for the key on/off, RL/FB/CON and KC registers and
\* the operator registers
YmWrite(c, addr, data) ==
    IF addr = 8 THEN YmKey(c, data)
    ELSE IF addr \in 40..47 THEN [c EXCEPT !.ch_kc[addr % 8] = data % 128]
    ELSE IF addr \in 32..39
    THEN [c EXCEPT !.ch_con[addr % 8] = data % 8,
                   !.ch_fb[addr % 8] = (data \div 8) % 8,
                   !.ch_lr[addr % 8] = (data \div 64) % 4]
    ELSE IF addr \in 64..95
    THEN [c EXCEPT !.op_dt1[_slot_map(addr)] = (data \div 16) % 8,
                   !.op_mul[_slot_map(addr)] = data % 16]
    ELSE IF addr \in 96..127
    THEN [c EXCEPT !.op_tl[_slot_map(addr)] = data % 128]
    ELSE IF addr \in 128..159
    THEN [c EXCEPT !.op_ar[_slot_map(addr)] = data % 32,
                   !.op_ks[_slot_map(addr)] = (data \div 64) % 4]
    ELSE IF addr \in 160..191
    THEN [c EXCEPT !.op_d1r[_slot_map(addr)] = data % 32,
                   !.op_ams_en[_slot_map(addr)] = (data \div 128) % 2]
    ELSE IF addr \in 192..223
    THEN [c EXCEPT !.op_d2r[_slot_map(addr)] = data % 32,
                   !.op_dt2[_slot_map(addr)] = (data \div 64) % 4]
    ELSE IF addr \in 224..255
    THEN [c EXCEPT !.op_rr[_slot_map(addr)] = data % 16,
                   !.op_d1l[_slot_map(addr)] = (data \div 16) % 16]
    ELSE c

\* _calc_phase_incs_all for key code 0, key fraction 0 and no detune:
\* freq = 16.35 * (0.5 if mul == 0 else mul); freq / RATE * 1024
YmPhaseInc(c, i) ==
    (NOTE_FREQ_0 * 512 * 1000 * (IF c.op_mul[i] = 0 THEN 1 ELSE 2 * c.op_mul[i]))
        \div (RATE \div 10)

\* Release: eff = rate * 4 + 2 + (ks >> 1), capped at 63
YmEff(c, i) == Min(63, c.op_rr[i] * 4 + 2 + (c.op_ks[i] \div 2))

\* period = (1 << shift) if shift > 0 else 1, shift = 6 - (eff >> 2)
YmPeriod(c, i) ==
    IF 6 - (YmEff(c, i) \div 4) > 0 THEN 2^(6 - (YmEff(c, i) \div 4)) ELSE 1

\* the envelope step of operator i has its counter reach the period
YmEgDue(c, i) == c.op_eg_counter[i] + 1 >= YmPeriod(c, i)

\* eg_cnt, lfo_counter, the envelope of all operators (Release branch) and
\* the phase accumulators of one native sample
YmAdvance(c) ==
    [c EXCEPT
        !.eg_cnt = @ + 1, !.lfo_counter = @ + 1,
        !.op_eg_counter =
            [i \in 0..31 |-> IF YmEgDue(c, i) THEN 0 ELSE c.op_eg_counter[i] + 1],
        !.op_eg_level =
            [i \in 0..31 |->
                IF YmEgDue(c, i)
                THEN Min(1023, c.op_eg_level[i] + 2 + (YmEff(c, i) % 4))
                ELSE c.op_eg_level[i]],
        !.op_phase =
            [i \in 0..31 |->
                (c.op_phase[i] + YmPhaseInc(c, i)) % (1024 * PhaseUnit)]]

\* _sin_table[k] = sin(2 pi k / 1024), k = 0..9, in 10^-7
sin_table ==
    <<0, 61359, 122715, 184067, 245412, 306748, 368072, 429383, 490677,
      551952>>

\* _atten_table[aidx] = 10 ** (-aidx / 200), in 10^-6, for the index of
\* total level 0 at envelope level 1023
atten_table == [aidx \in {479} |-> 4027]

\* aidx = int((op_tl * 0.75 + op_eg_level * 0.046875) * 10.0)
YmAidx(c, i) == (c.op_tl[i] * 480 + c.op_eg_level[i] * 30) \div 64

\* the output of operator i whose phase is modulated by mod:
\* sin_table[int(pv) & 1023] * atten_table[aidx], or 0.0
YmOp(c, i, mod) ==
    IF YmAidx(c, i) > 960 THEN 0
    ELSE (sin_table[((((c.op_phase[i] + mod) % (1024 * PhaseUnit))
                        \div PhaseUnit) % 1024) + 1]
          * atten_table[YmAidx(c, i)]) \div 10000

\* an operator output times k as a phase offset
YmMod(out, k) == (out * k) \div 1000

\* fb_mod = (fb_out_0 + fb_out_1) * 0.5 * ((1 << (fb - 1)) * 0.25)
YmFbMod(c, ch) ==
    IF c.ch_fb[ch] > 0
    THEN ((c.fb_out_0[ch] + c.fb_out_1[ch]) * 2^(c.ch_fb[ch] - 1)) \div 8
    ELSE 0

\* m1_out of channel ch
YmM1(c, ch) == YmOp(c, ch, YmFbMod(c, ch))

\* c1_out: modulated by M1 for the connections 0, 3, 4, 5, 6
YmC1(c, ch) ==
    YmOp(c, ch + 16,
         IF c.ch_con[ch] \in {0, 3, 4, 5, 6} THEN YmMod(YmM1(c, ch), 512)
         ELSE 0)

\* m2_out: modulated by C1 (0, 2), by M1 + C1 (1), by M1 (5)
YmM2(c, ch) ==
    YmOp(c, ch + 8,
         IF c.ch_con[ch] \in {0, 2} THEN YmMod(YmC1(c, ch), 512)
         ELSE IF c.ch_con[ch] = 1
         THEN YmMod(YmM1(c, ch) + YmC1(c, ch), 256)
         ELSE IF c.ch_con[ch] = 5 THEN YmMod(YmM1(c, ch), 512)
         ELSE 0)

\* c2_out: modulated by M2 (0, 1, 4), M1 + M2 (2), C1 + M2 (3), M1 (5)
YmC2(c, ch) ==
    YmOp(c, ch + 24,
         IF c.ch_con[ch] \in {0, 1, 4} THEN YmMod(YmM2(c, ch), 512)
         ELSE IF c.ch_con[ch] = 2
         THEN YmMod(YmM1(c, ch) + YmM2(c, ch), 256)
         ELSE IF c.ch_con[ch] = 3
         THEN YmMod(YmC1(c, ch) + YmM2(c, ch), 256)
         ELSE IF c.ch_con[ch] = 5 THEN YmMod(YmM1(c, ch), 512)
         ELSE 0)

\* out of channel ch: the carriers of its connection algorithm
YmOut(c, ch) ==
    IF c.ch_con[ch] \in {0, 1, 2, 3} THEN YmC2(c, ch)
    ELSE IF c.ch_con[ch] = 4 THEN YmC1(c, ch) + YmC2(c, ch)
    ELSE IF c.ch_con[ch] \in {5, 6}
    THEN YmC1(c, ch) + YmM2(c, ch) + YmC2(c, ch)
    ELSE YmM1(c, ch) + YmC1(c, ch) + YmM2(c, ch) + YmC2(c, ch)

RECURSIVE YmSum(_, _, _)
\* left (bit = 1) or right (bit = 0): the outputs of the channels 0..ch
\* whose ch_lr has the bit
YmSum(outs, lr, ch) ==
    IF ch < 0 THEN 0
    ELSE YmSum(outs, lr, ch - 1) + (IF lr[ch] = 1 THEN outs[ch] ELSE 0)

\* native_left[n], native_right[n] of the chip whose envelopes and phases
\* were advanced
YmMix(c, outs) ==
    << YmSum(outs, [ch \in 0..7 |-> Bit(c.ch_lr[ch], 1)], 7),
       YmSum(outs, [ch \in 0..7 |-> Bit(c.ch_lr[ch], 0)], 7) >>

\* fb_out_1[ch] = fb_out_0[ch]; fb_out_0[ch] = m1_out * 512
YmFeedback(c) ==
    [c EXCEPT !.fb_out_1 = c.fb_out_0,
              !.fb_out_0 = [ch \in 0..7 |-> YmMod(YmM1(c, ch), 512)]]

\* one pass of "for n in range(total_native)", after the advance
YmNative(st, c) ==
    [chip |-> YmFeedback(c),
     native |-> Append(st.native, YmMix(c, [ch \in 0..7 |-> YmOut(c, ch)]))]

RECURSIVE YmLoop(_, _)
\* for n in range(total_native); the test of st.native has st evaluated
\* before the next pass
YmLoop(st, k) ==
    IF k = 0 \/ Len(st.native) < 0 THEN st
    ELSE YmLoop(YmNative(st, YmAdvance(st.chip)), k - 1)

\* total_native = int(num_samples * ratio) + 2
total_native(num_samples, rate) ==
    RFloor(Rat(num_samples * RATE, rate)) + 2

\* np.interp at output index i (position i * ratio), one side, then
\* "* 24000", clip and astype(np.int16)
YmResample(native, side, i, rate) ==
    LET x    == Rat(i * RATE, rate)
        j    == RFloor(x)
        frac == RSub(x, RInt(j))
        v    == (native[j + 1][side] * (frac[2] - frac[1])
                 + native[j + 2][side] * frac[1]) \div frac[2]
    IN  Clip16(RInt(AsInt16(Rat(v * 24, 1000000))))[1]

\* render(num_samples, sample_rate): the chip state written back and the
\* stereo samples returned
YmRender(c, num_samples, rate) ==
    LET st == YmLoop([chip |-> c, native |-> << >>],
                     total_native(num_samples, rate))
    IN  [chip |-> st.chip,
         samples |-> [i \in 1..num_samples |->
                        << YmResample(st.native, 1, i - 1, rate),
                           YmResample(st.native, 2, i - 1, rate) >>]]

\* register writes of the emulators under test: TL = 127 for C2 of
\* channel 0, MUL = 1 for C2 of channel 0, channel 0 to the right only,
\* channel 7 with all four operators as carriers
YmWrites == { <<120, 127>>, <<88, 1>>, <<32, 64>>, <<39, 199>> }

MaxYmWrites == 2
MaxYmRender == 3

\* both emulators get the same write
YmWriteBoth ==
    /\ ym.status = "setup" /\ Len(ym.writes) < MaxYmWrites
    /\ \E w \in YmWrites :
          ym' = [ym EXCEPT !.A = YmWrite(@, w[1], w[2]),
                           !.B = YmWrite(@, w[1], w[2]),
                           !.writes = Append(@, w)]
    /\ UNCHANGED not_ym

\* A.render(a + b)
YmWhole ==
    /\ ym.status \in {"setup", "render"} /\ ~ym.rendered
    /\ \E st \in {YmRender(ym.A, ym.a + ym.b, sample_rate)} :
          ym' = [ym EXCEPT !.status = "render", !.A = st.chip,
                           !.whole = st.samples, !.rendered = TRUE]
    /\ UNCHANGED not_ym

\* B.render(a)
YmFirst ==
    /\ ym.status \in {"setup", "render"} /\ ym.calls = 0
    /\ \E st \in {YmRender(ym.B, ym.a, sample_rate)} :
          ym' = [ym EXCEPT !.status = "render", !.B = st.chip,
                           !.parts = st.samples, !.calls = 1]
    /\ UNCHANGED not_ym

\* B.render(b), with no write since B.render(a)
YmSecond ==
    /\ ym.status = "render" /\ ym.calls = 1
    /\ \E st \in {YmRender(ym.B, ym.b, sample_rate)} :
          ym' = [ym EXCEPT !.B = st.chip, !.parts = @ \o st.samples,
                           !.calls = 2]
    /\ UNCHANGED not_ym

\* two emulators after __init__, and the spans a and b to render
YmStart ==
    \E a, b \in 1..MaxYmRender :
        ym = [status |-> "setup", a |-> a, b |-> b, A |-> YmReset,
              B |-> YmReset, writes |-> << >>, rendered |-> FALSE,
              whole |-> << >>, parts |-> << >>, calls |-> 0]

NextYm == YmWriteBoth \/ YmWhole \/ YmFirst \/ YmSecond

(***************************************************************************)
(* The three chip emulators, one of them exercised in a behaviour          *)
(***************************************************************************)
InitChips ==
    /\ rom = "main"
    /\ \/ IdleBut_pk /\ PkStart
       \/ IdleBut_ym /\ YmStart
       \/ InitTms

NextChips == NextPk \/ NextYm \/ NextTms

SpecChips == InitChips /\ [][NextChips]_vars

(***************************************************************************)
(* Properties of the chip emulators                                        *)
(***************************************************************************)
\* C11: when emulator A has rendered a + b samples in one call and
\* emulator B, from the same state and with no write in between, a samples
\* and then b samples, the samples of A are those of B's two calls in
\* order (polychip and FM chip).
C11_SplitRender ==
    /\ pk.status # "idle" /\ pk.rendered /\ pk.calls = 2
          => pk.whole = pk.parts
    /\ ym.status # "idle" /\ ym.rendered /\ ym.calls = 2
          => ym.whole = ym.parts

\* C12: an emulator that got no register write since reset() returns from
\* its first render(n) exactly n samples, all 0 (polychip) or all (0, 0)
\* (FM chip); the speech chip given no frame data appends no sample.
C12_SilentAfterReset ==
    /\ pk.status # "idle" /\ pk.writes = << >> =>
          /\ pk.rendered => /\ Len(pk.whole) = pk.a + pk.b
                            /\ \A i \in 1..Len(pk.whole) : pk.whole[i] = 0
          /\ pk.calls = 1 => /\ Len(pk.parts) = pk.a
                             /\ \A i \in 1..Len(pk.parts) : pk.parts[i] = 0
    /\ ym.status # "idle" /\ ym.writes = << >> =>
          /\ ym.rendered =>
                /\ Len(ym.whole) = ym.a + ym.b
                /\ \A i \in 1..Len(ym.whole) : ym.whole[i] = <<0, 0>>
          /\ ym.calls = 1 =>
                /\ Len(ym.parts) = ym.a
                /\ \A i \in 1..Len(ym.parts) : ym.parts[i] = <<0, 0>>
    /\ tms.status = "returned" /\ tms.data = << >> => tms.n = 0

(***************************************************************************)
(* SET_VOICE on the FM chip: the events of _load_ym_voice, applied one by  *)
(* one to an emulator after reset as _render_ym_events applies them        *)
(***************************************************************************)
\* channel ids of FM voices, voice pointers (a definition inside the ROM,
\* one ending at the last byte of the ROM, two cut off by the end of the
\* ROM, one below the ROM) and times of the SET_VOICE
VoiceChannels == {4, 5, 7, 11}
VoicePtrs == {\h7900, \hFFE7, \hFFF0, \hFFFF, \h3000}
VoiceTimes == {RInt(0), Rat(1, FRAME_RATE)}

\* the events SET_VOICE appends in FM mode at time t, and a chip after reset
VoiceStart ==
    \E channel \in VoiceChannels : \E voice_ptr \in VoicePtrs :
    \E t \in VoiceTimes :
    \E writes \in {_load_ym_voice(rom, channel, voice_ptr)} :
        ym = [status |-> "voice", channel |-> channel,
              voice_ptr |-> voice_ptr, t |-> t,
              events |-> RegWrites(t, writes, 1),
              idx |-> 0, chip |-> YmReset]

RECURSIVE YmWriteAll(_, _, _)
\* self.ym2151.write for the writes ws from the i-th on
YmWriteAll(c, ws, i) ==
    IF i > Len(ws) THEN c
    ELSE YmWriteAll(YmWrite(c, ws[i][1], ws[i][2]), ws, i + 1)

\* the next event is applied to the chip
VoiceApply ==
    /\ ym.status = "voice" /\ ym.idx < Len(ym.events)
    /\ ym' = [ym EXCEPT
                !.idx = @ + 1,
                !.chip = YmWriteAll(@, YmEventWrites(ym.events[ym.idx + 1]), 1)]
    /\ UNCHANGED not_ym

InitVoice == rom = "main" /\ IdleBut_ym /\ VoiceStart
NextVoice == VoiceApply
SpecVoice == InitVoice /\ [][NextVoice]_vars

\* m1 = ch, m2 = ch + 8, c1 = ch + 16, c2 = ch + 24: the operator the
\* connection algorithms read as slot k (0 = M1, 1 = M2, 2 = C1, 3 = C2)
YmSlot(ch, k) == ch + 8 * k

\* the parameters of operator i
OpParams(c, i) ==
    << c.op_dt1[i], c.op_mul[i], c.op_tl[i], c.op_ks[i], c.op_ar[i],
       c.op_ams_en[i], c.op_d1r[i], c.op_dt2[i], c.op_d2r[i], c.op_d1l[i],
       c.op_rr[i] >>

\* the parameters held by the 6 bytes of a descriptor block at address a:
\* DT1/MUL, TL, KS/AR, AMS-EN/D1R, DT2/D2R, D1L/RR
BlockParams(r, a) ==
    << (read_byte(r, a) \div 16) % 8, read_byte(r, a) % 16,
       read_byte(r, a + 1) % 128,
       (read_byte(r, a + 2) \div 64) % 4, read_byte(r, a + 2) % 32,
       (read_byte(r, a + 3) \div 128) % 2, read_byte(r, a + 3) % 32,
       (read_byte(r, a + 4) \div 64) % 4, read_byte(r, a + 4) % 32,
       (read_byte(r, a + 5) \div 16) % 16, read_byte(r, a + 5) % 16 >>

\* the register of byte j (1..6) of descriptor block k (0..3) on voice ch:
\* rows $40, $60, ... $E0; columns $00 (M1), $10 (M2), $08 (C1), $18 (C2)
BlockReg(ch, k, j) == \h40 + \h20 * (j - 1) + << 0, \h10, \h08, \h18 >>[k + 1] + ch

\* the bytes of a 25-byte descriptor at voice_ptr that can be read
Readable(r, voice_ptr) ==
    Cardinality({i \in 0..24 : ~Raised(read_byte(r, voice_ptr + i))})

\* the events are writes at time t: $20 + ch with the first byte and both
\* L/R bits, then the bytes of the blocks M1, M2, C1, C2 in this order
VoiceEvents(v) ==
    /\ \A i \in 1..Len(v.events) :
          v.events[i].kind = "ym_reg_write" /\ v.events[i].t = v.t
    /\ Len(v.events) >= 1 =>
          v.events[1].data = << \h20 + (v.channel % 8),
                                BitOr(read_byte(rom, v.voice_ptr), \hC0) >>
    /\ \A k \in 0..3 : \A j \in 1..6 :
          1 + 6 * k + j <= Len(v.events) =>
             v.events[1 + 6 * k + j].data =
                << BlockReg(v.channel % 8, k, j),
                   read_byte(rom, v.voice_ptr + 6 * k + j) >>

\* once all 25 events are applied to a chip after reset: voice ch has the
\* algorithm and feedback of the first byte and both outputs enabled, slot k
\* of voice ch has the parameters of block k, and every other voice and
\* operator is as reset left it
VoiceLoaded(v) ==
    LET ch == v.channel % 8
        fb_con == read_byte(rom, v.voice_ptr)
    IN /\ \A c \in 0..7 :
             << v.chip.ch_con[c], v.chip.ch_fb[c], v.chip.ch_lr[c] >> =
                IF c = ch THEN << fb_con % 8, (fb_con \div 8) % 8, 3 >>
                ELSE << 0, 0, 3 >>
       /\ \A k \in 0..3 :
             OpParams(v.chip, YmSlot(ch, k)) =
                BlockParams(rom, v.voice_ptr + 1 + 6 * k)
       /\ \A i \in 0..31 :
             i \notin {YmSlot(ch, k) : k \in 0..3} =>
                OpParams(v.chip, i) = OpParams(YmReset, i)

C30_WitnessCut ==
    /\ ym.status = "voice" /\ ym.voice_ptr = \hFFF0
    /\ Len(ym.events) = 16 /\ ym.idx = 16

(***************************************************************************)
(* The score of a voice (disassemble_sequence, then                        *)
(* build_channel_timeline) and the trace _interpret_sequence makes of the  *)
(* same stream                                                             *)
(***************************************************************************)
\* the stream is disassembled and its timeline built
ScoreDisassemble == status = "running" /\ icount = 0 /\ NextDis

\* the stream is interpreted once the instruction list is returned
ScorePlay == dis.status # "running" /\ Next

\* the calls of the streams that end, with the default max_seconds
ScoreCalls == { c \in Calls : c[2] # \h7400 /\ c[4] = 30 }

\* both start from the same image and the same address
InitScore ==
    /\ ReadIdle /\ ResolveIdle
    /\ PolyIdle /\ RlIdle /\ MgIdle /\ MidiIdle /\ MixIdle /\ TmsIdle
    /\ PkIdle /\ YmIdle
    /\ \E c \in ScoreCalls :
          /\ rom = c[1] /\ start_addr = c[2]
          /\ channel_id = c[3] /\ max_seconds = c[4]
    /\ has_pokey \in BOOLEAN /\ has_ym = ~has_pokey
    /\ hw_mode = IF channel_id >= 4 THEN "YM2151" ELSE "POKEY"
    /\ status = "running" /\ stop = "none"
    /\ InterpLocals(start_addr)
    /\ dis = DisLocals(start_addr)

NextScore == ScoreDisassemble \/ ScorePlay

SpecScore == InitScore /\ [][NextScore]_vars

\* both functions have returned, the interpreter at an end marker or a
\* CHAIN on an empty stack; the voice is not a POKEY voice, whose rests
\* are stretched by the envelope ring-out
ScoreDone ==
    /\ status = "returned" /\ stop = "end" /\ ~on_pokey
    /\ dis.status = "returned" /\ ~dis.timeline.raised

\* C31: the timeline built from the disassembly has the start times and
\* durations of the interpreter's trace of the same stream; in particular
\* both end at the same time, the sum of all durations
C31_TimelineMatchesTrace ==
    ScoreDone => dis.timeline.cumulative_frames = cumulative_frames

(***************************************************************************)
(* TMS5220Emulator._read_bits and _parse_frame, bit by bit: frames parsed  *)
(* one after the other from a byte string, up to a stop frame              *)
(***************************************************************************)
TMS5220_KBITS == << 5, 5, 4, 4, 4, 4, 4, 3, 3, 3 >>

\* the pass of the loop of _read_bits with the bits of a byte taken from
\* the most significant down
ReadBit_msb(t) ==
    [t EXCEPT
        !.val = 2 * @ + (IF t.byte_pos < Len(t.data)
                         THEN Bit(t.data[t.byte_pos + 1], 7 - t.bit_pos)
                         ELSE 0),
        !.bit_pos = IF @ + 1 >= 8 THEN 0 ELSE @ + 1,
        !.byte_pos = IF t.bit_pos + 1 >= 8 THEN @ + 1 ELSE @]

\* one pass of the loop of _read_bits on the cursor (byte_pos, bit_pos)
\* of t, val being the local of that name
ReadBit(t) ==
    [t EXCEPT
        !.val = 2 * @ + (IF t.byte_pos < Len(t.data)
                         THEN Bit(t.data[t.byte_pos + 1], t.bit_pos)
                         ELSE 0),
        !.bit_pos = IF @ + 1 >= 8 THEN 0 ELSE @ + 1,
        !.byte_pos = IF t.bit_pos + 1 >= 8 THEN @ + 1 ELSE @]

RECURSIVE ReadLoop(_, _)
\* for _ in range(count)
ReadLoop(t, count) ==
    IF count = 0 THEN t ELSE ReadLoop(ReadBit(t), count - 1)

\* _read_bits(count): val = 0, then the loop; the value returned is val
ReadBits(t, count) == ReadLoop([t EXCEPT !.val = 0], count)

\* self.new_frame_k_idx[i] = self._read_bits(TMS5220_KBITS[i])
ReadK(t, i) ==
    [ReadBits(t, TMS5220_KBITS[i + 1]) EXCEPT
        !.new_frame_k_idx[i] = ReadBits(t, TMS5220_KBITS[i + 1]).val]

RECURSIVE ReadKs(_, _, _)
\* for i in range(first, last + 1)
ReadKs(t, i, last) ==
    IF i > last THEN t ELSE ReadKs(ReadK(t, i), i + 1, last)

\* _parse_frame after the pitch index is read into t
ParseVoicing(t) ==
    IF t.rep_flag = 1 THEN t
    ELSE IF t.new_frame_pitch_idx = 0 THEN ReadKs(t, 0, 3)
    ELSE ReadKs(ReadKs(t, 0, 3), 4, 9)

\* rep_flag = self._read_bits(1)
ParseRepeat(t) == [ReadBits(t, 1) EXCEPT !.rep_flag = ReadBits(t, 1).val]

\* self.new_frame_pitch_idx = self._read_bits(6); self.uv_zpar = ...
ParsePitch(t) ==
    [ReadBits(t, 6) EXCEPT
        !.new_frame_pitch_idx = ReadBits(t, 6).val,
        !.uv_zpar = IF ReadBits(t, 6).val = 0 THEN 1 ELSE 0]

\* _parse_frame after the energy index is read into t
ParseEnergy(t) ==
    IF t.new_frame_energy_idx = 0 \/ t.new_frame_energy_idx = 15 THEN t
    ELSE ParseVoicing(ParsePitch(ParseRepeat(t)))

\* _parse_frame()
ParseFrame(t) ==
    ParseEnergy([ReadBits([t EXCEPT !.uv_zpar = 0, !.zpar = 0], 4) EXCEPT
                    !.new_frame_energy_idx =
                        ReadBits([t EXCEPT !.uv_zpar = 0, !.zpar = 0], 4).val])

\* bytes of the strings parsed
MaxFrameBytes == 8

\* byte strings: a byte repeated, and strings whose bytes step by 37, 73
\* or 139 from the bytes 8, 90 and 241
FrameData ==
    { [i \in 1..n |-> (a * i + b) % 256] :
        a \in {0, 37, 73, 139}, b \in {0, 8, 90, 241, 255},
        n \in 0..MaxFrameBytes }

\* the bit cursor of t
Cursor(t) == 8 * t.byte_pos + t.bit_pos

\* the next frame is parsed; from is the cursor before it, frames the
\* number of frames parsed
FrameParse ==
    /\ tms.status = "frames" /\ tms.byte_pos <= Len(tms.data)
    /\ tms.new_frame_energy_idx # 15
    /\ tms' = [ParseFrame(tms) EXCEPT !.from = Cursor(tms),
                                      !.frames = @ + 1]
    /\ UNCHANGED not_tms

\* data is set and the cursor is at its first bit, as synthesize leaves
\* them before its loop; the other fields are those of _reset
InitFrame ==
    /\ rom = "main" /\ IdleBut_tms
    /\ \E data \in FrameData :
          tms = [status |-> "frames", data |-> data, byte_pos |-> 0,
                 bit_pos |-> 0, val |-> 0, rep_flag |-> 0,
                 new_frame_energy_idx |-> 0, new_frame_pitch_idx |-> 0,
                 new_frame_k_idx |-> [i \in 0..9 |-> 0],
                 uv_zpar |-> 1, zpar |-> 1, from |-> 0, frames |-> 0]

NextFrame == FrameParse

SpecFrame == InitFrame /\ [][NextFrame]_vars

(***************************************************************************)
(* Properties of _parse_frame                                              *)
(***************************************************************************)
\* the value of the count bits of data from bit number p on, the first
\* being the most significant; bit number p is bit p % 8, counted from
\* the least significant, of byte p \div 8
BitsAt(data, p, count) ==
    SumSeq([i \in 1..count |-> StreamBit(data, p + i - 1) * 2^(count - i)])

\* the bits of the frame that starts at bit p of data
FrameBits(data, p) ==
    IF BitsAt(data, p, 4) \in {0, 15} THEN 4
    ELSE IF BitsAt(data, p + 4, 1) = 1 THEN 11
    ELSE IF BitsAt(data, p + 5, 6) = 0 THEN 29
    ELSE 50

\* the frame last parsed started at bit from: the cursor is past its bits
\* and the indices are the bits of the stream
FrameParsed ==
    tms.status = "frames" /\ tms.frames > 0 =>
        /\ Cursor(tms) - tms.from = FrameBits(tms.data, tms.from)
        /\ tms.new_frame_energy_idx = BitsAt(tms.data, tms.from, 4)
        /\ FrameBits(tms.data, tms.from) > 4 =>
              tms.new_frame_pitch_idx = BitsAt(tms.data, tms.from + 5, 6)
        /\ FrameBits(tms.data, tms.from) > 11 =>
              /\ tms.new_frame_k_idx[0] = BitsAt(tms.data, tms.from + 11, 5)
              /\ tms.new_frame_k_idx[3] = BitsAt(tms.data, tms.from + 25, 4)
        /\ FrameBits(tms.data, tms.from) > 29 =>
              /\ tms.new_frame_k_idx[4] = BitsAt(tms.data, tms.from + 29, 4)
              /\ tms.new_frame_k_idx[9] = BitsAt(tms.data, tms.from + 47, 3)

\* C33: a frame takes 4 bits when its energy index is 0 or 15, 11 bits
\* when it is a repeat frame, 29 bits when it is a non-repeat frame of
\* pitch index 0 and 50 bits otherwise; the indices are the bits of the
\* stream taken LSB first within each byte; and each parse moves the
\* cursor forward by the bits of its frame, so that the next frame starts
\* at the bit after the last bit of the frame before it
C33_FrameBits ==
    /\ [](FrameParsed)
    /\ [][tms.status = "frames" =>
            /\ tms'.from = Cursor(tms)
            /\ Cursor(tms') = Cursor(tms) + FrameBits(tms.data, Cursor(tms))
            /\ tms'.data = tms.data]_vars

\* a voiced frame of 50 bits parsed after an unvoiced frame of 29 bits,
\* starting inside a byte
C33_Witness ==
    /\ tms.status = "frames" /\ tms.frames >= 2
    /\ tms.from % 8 # 0 /\ Cursor(tms) - tms.from = 50
    /\ tms.new_frame_pitch_idx # 0 /\ tms.rep_flag = 0

\* a repeat frame of 11 bits
C33_WitnessRepeat ==
    /\ tms.status = "frames" /\ tms.frames >= 1
    /\ Cursor(tms) - tms.from = 11 /\ tms.rep_flag = 1

\* an unvoiced frame of 29 bits
C33_WitnessUnvoiced ==
    /\ tms.status = "frames" /\ tms.frames >= 1
    /\ Cursor(tms) - tms.from = 29 /\ tms.new_frame_pitch_idx = 0

\* a silence frame read past the end of the data
C33_WitnessPastEnd ==
    /\ tms.status = "frames" /\ tms.from >= 8 * Len(tms.data)
    /\ tms.data # << >> /\ Cursor(tms) - tms.from = 4

(***************************************************************************)
(* SequenceInterpreter._step_pokey_envelopes: one frame, pass by pass of   *)
(* the two `while True` scans                                              *)
(***************************************************************************)
\* a 0xFF loop marker read in one pass of the frequency scan: the envelope
\* state after the pass and whether the pass ended in `continue`
FreqMarker_keep(fe, lc, back) ==
    LET n == IF fe.freq_loop_count = -1 THEN lc ELSE fe.freq_loop_count IN
    IF Raised(lc) THEN [fe |-> [fe EXCEPT !.freq_pos = 0], again |-> FALSE]
    ELSE IF n <= 0
    THEN [fe |-> [fe EXCEPT !.freq_loop_count = n, !.freq_pos = 0],
          again |-> FALSE]
    ELSE IF Raised(back)
    THEN [fe |-> [fe EXCEPT !.freq_loop_count = n, !.freq_pos = 0],
          again |-> FALSE]
    ELSE [fe |-> [fe EXCEPT !.freq_loop_count = n,
                            !.freq_pos = Max(0, @ - back)],
          again |-> TRUE]

\* a 0xFF loop marker read in one pass of the frequency scan: the envelope
\* state after the pass and whether the pass ended in `continue`
FreqMarker(fe, lc, back) ==
    LET n == IF fe.freq_loop_count = -1 THEN lc ELSE fe.freq_loop_count IN
    IF Raised(lc) THEN [fe |-> [fe EXCEPT !.freq_pos = 0], again |-> FALSE]
    ELSE IF n <= 0
    THEN [fe |-> [fe EXCEPT !.freq_loop_count = n, !.freq_pos = 0],
          again |-> FALSE]
    ELSE IF n - 1 > 0
    THEN IF Raised(back)
         THEN [fe |-> [fe EXCEPT !.freq_loop_count = n - 1, !.freq_pos = 0],
               again |-> FALSE]
         ELSE [fe |-> [fe EXCEPT !.freq_loop_count = n - 1,
                                 !.freq_pos = Max(0, @ - back)],
               again |-> TRUE]
    ELSE [fe |-> [fe EXCEPT !.freq_loop_count = n - 1, !.freq_pos = @ + 3],
          again |-> TRUE]

\* one pass of the frequency scan, count being the byte read at freq_pos
FreqPass(r, fe, count) ==
    IF Raised(count)
    THEN [fe |-> [fe EXCEPT !.freq_active = FALSE], again |-> FALSE]
    ELSE IF count = \hFF
    THEN FreqMarker(fe, read_byte(r, fe.freq_ptr + fe.freq_pos + 1),
                    read_byte(r, fe.freq_ptr + fe.freq_pos + 2))
    ELSE IF count = 0
    THEN [fe |-> [fe EXCEPT !.freq_active = FALSE], again |-> FALSE]
    ELSE [fe |-> ScanFreqEntry(fe, count,
                               read_byte(r, fe.freq_ptr + fe.freq_pos + 1),
                               read_byte(r, fe.freq_ptr + fe.freq_pos + 2)),
          again |-> FALSE]

\* a 0xFF loop marker read in one pass of the volume scan
VolMarker(fe, lc, back) ==
    LET n == IF fe.vol_loop_count = -1 THEN lc ELSE fe.vol_loop_count IN
    IF Raised(lc) THEN [fe |-> [fe EXCEPT !.vol_pos = 0], again |-> FALSE]
    ELSE IF n <= 0
    THEN [fe |-> [fe EXCEPT !.vol_loop_count = n, !.vol_pos = 0],
          again |-> FALSE]
    ELSE IF n - 1 > 0
    THEN IF Raised(back)
         THEN [fe |-> [fe EXCEPT !.vol_loop_count = n - 1, !.vol_pos = 0],
               again |-> FALSE]
         ELSE [fe |-> [fe EXCEPT !.vol_loop_count = n - 1,
                                 !.vol_pos = Max(0, @ - back)],
               again |-> TRUE]
    ELSE [fe |-> [fe EXCEPT !.vol_loop_count = n - 1, !.vol_pos = @ + 3],
          again |-> TRUE]

\* one pass of the volume scan, count being the byte read at vol_pos
VolPass(r, fe, count) ==
    IF Raised(count)
    THEN [fe |-> [fe EXCEPT !.vol_active = FALSE], again |-> FALSE]
    ELSE IF count = \hFF
    THEN VolMarker(fe, read_byte(r, fe.vol_ptr + fe.vol_pos + 1),
                   read_byte(r, fe.vol_ptr + fe.vol_pos + 2))
    ELSE IF count = 0
    THEN [fe |-> [fe EXCEPT !.vol_active = FALSE], again |-> FALSE]
    ELSE [fe |-> ScanVolEntry(fe, count,
                              read_byte(r, fe.vol_ptr + fe.vol_pos + 1)),
          again |-> FALSE]

\* what a step of the frame leaves alone
ScanKeep ==
    UNCHANGED << rom, rd_vars, res_vars, dev_vars, stop, seq_in, hw_mode, pc,
                 return_stack, loop_stack, seq_regs, cumulative_frames,
                 icount, events, emitted >>

\* "Step frequency envelope" up to its scan
FrameFreq ==
    /\ status = "frame"
    /\ IF ~pokey_env.freq_active
       THEN status' = "vol" /\ pokey_env' = pokey_env
       ELSE IF pokey_env.freq_frame_ctr - 1 <= 0
       THEN /\ status' = "freq_scan"
            /\ pokey_env' = [pokey_env EXCEPT !.freq_frame_ctr = @ - 1]
       ELSE /\ status' = "vol"
            /\ pokey_env' = AccumFreq([pokey_env EXCEPT
                                          !.freq_frame_ctr = @ - 1])
    /\ ScanKeep

\* one pass of the frequency scan; when it is left, freq_accum is stepped
FreqScan ==
    /\ status = "freq_scan"
    /\ \E p \in {FreqPass(rom, pokey_env,
                          read_byte(rom, pokey_env.freq_ptr
                                         + pokey_env.freq_pos))} :
          IF p.again THEN status' = "freq_scan" /\ pokey_env' = p.fe
          ELSE status' = "vol" /\ pokey_env' = AccumFreq(p.fe)
    /\ ScanKeep

\* "Step volume envelope" up to its scan
FrameVol ==
    /\ status = "vol"
    /\ IF ~pokey_env.vol_active
       THEN status' = "stepped" /\ pokey_env' = pokey_env
       ELSE IF pokey_env.vol_frame_ctr - 1 <= 0
       THEN /\ status' = "vol_scan"
            /\ pokey_env' = [pokey_env EXCEPT !.vol_frame_ctr = @ - 1]
       ELSE /\ status' = "stepped"
            /\ pokey_env' = AccumVol([pokey_env EXCEPT
                                         !.vol_frame_ctr = @ - 1])
    /\ ScanKeep

\* one pass of the volume scan; when it is left, vol_accum is stepped
VolScan ==
    /\ status = "vol_scan"
    /\ \E p \in {VolPass(rom, pokey_env,
                         read_byte(rom, pokey_env.vol_ptr
                                        + pokey_env.vol_pos))} :
          IF p.again THEN status' = "vol_scan" /\ pokey_env' = p.fe
          ELSE status' = "stepped" /\ pokey_env' = AccumVol(p.fe)
    /\ ScanKeep

\* envelope pointers: every address of the tables of image "main", RAM;
\* in image "calls" a run of 0xFF and the last three bytes of the ROM
ScanPtrs ==
    ({"main"} \X (DOMAIN EnvTables \cup {\h3000}))
        \cup ({"calls"} \X {\hC000, \hFFFD, \hFFFE, \hFFFF})

\* the envelope state a frame may start with
ScanEnv(ptr, pos, ctr, lc, which) ==
    [freq_active |-> which # "vol", freq_ptr |-> ptr, freq_pos |-> pos,
     freq_frame_ctr |-> ctr, freq_delta |-> 0, freq_accum |-> 0,
     freq_loop_count |-> lc,
     vol_active |-> which # "freq", vol_ptr |-> ptr, vol_pos |-> pos,
     vol_frame_ctr |-> ctr, vol_delta |-> 0, vol_accum |-> 0,
     vol_loop_count |-> lc]

InitScan ==
    /\ ReadIdle /\ ResolveIdle /\ DevIdle
    /\ status = "frame" /\ stop = "none"
    /\ start_addr = 0 /\ channel_id = 0 /\ hw_mode = "POKEY"
    /\ has_pokey = TRUE /\ has_ym = FALSE /\ max_seconds = 0
    /\ pc = 0 /\ return_stack = << >> /\ loop_stack = << >>
    /\ tempo = 0 /\ volume = 0 /\ transpose = 0 /\ freq_offset = 0
    /\ distortion = \hA0 /\ ctrl_bits = 0 /\ repeat_count = 0
    /\ variables = [i \in 0..7 |-> 0] /\ var_reg = 0
    /\ cumulative_frames = RInt(0) /\ icount = 0
    /\ events = NoEvents /\ emitted = << >>
    /\ \E p \in ScanPtrs, pos \in {0, 3}, ctr \in {1, 2}, lc \in {-1, 0, 2},
          which \in {"freq", "vol", "both"} :
          /\ rom = p[1]
          /\ pokey_env = ScanEnv(p[2], pos, ctr, lc, which)

NextScan == FrameFreq \/ FreqScan \/ FrameVol \/ VolScan

SpecScan == InitScan /\ [][NextScan]_vars

\* the frame loop keeps executing
FairScan == SpecScan /\ WF_vars(NextScan)

(***************************************************************************)
(* Properties of the envelope scan                                         *)
(***************************************************************************)
\* the marker visits a loop count still allows (-1: not yet loaded)
Remaining(n) == IF n = -1 THEN 256 ELSE n

\* C40: the step of a frame comes to its end whatever the envelope pointers
\* point at; the loop counts stay in -1..255, and every pass of a scan
\* that ends in `continue` (a 0xFF marker was visited) has decremented the
\* remaining loop count, so a scan makes at most 256 such passes of at
\* most 3 reads each.
C40_ScanTerminates ==
    /\ <>(status = "stepped")
    /\ [](/\ pokey_env.freq_loop_count \in -1..255
          /\ pokey_env.vol_loop_count \in -1..255)
    /\ [][/\ status = "freq_scan" /\ status' = "freq_scan" =>
                /\ Remaining(pokey_env'.freq_loop_count)
                       < Remaining(pokey_env.freq_loop_count)
                /\ read_byte(rom, pokey_env.freq_ptr + pokey_env.freq_pos)
                       = \hFF
          /\ status = "vol_scan" /\ status' = "vol_scan" =>
                /\ Remaining(pokey_env'.vol_loop_count)
                       < Remaining(pokey_env.vol_loop_count)
                /\ read_byte(rom, pokey_env.vol_ptr + pokey_env.vol_pos)
                       = \hFF]_vars

\* a marker with loop count 255 and back_offset 0 has been visited 155
\* times in this scan
C40_Witness ==
    /\ status = "freq_scan" /\ pokey_env.freq_loop_count = 100
    /\ read_byte(rom, pokey_env.freq_ptr + pokey_env.freq_pos) = \hFF
    /\ read_byte(rom, pokey_env.freq_ptr + pokey_env.freq_pos + 1) = \hFF
    /\ read_byte(rom, pokey_env.freq_ptr + pokey_env.freq_pos + 2) = 0

\* a marker whose back_offset 3 points at the marker before it
C40_WitnessChain ==
    /\ status = "vol_scan" /\ pokey_env.vol_pos = 0
    /\ pokey_env.vol_loop_count = 200
    /\ read_byte(rom, pokey_env.vol_ptr) = \hFF
    /\ read_byte(rom, pokey_env.vol_ptr + 2) = 1
    /\ read_byte(rom, pokey_env.vol_ptr + 3) = \hFF
    /\ read_byte(rom, pokey_env.vol_ptr + 5) = 3

\* the frame ended with the scan left at a marker whose loop count ran out
C40_WitnessEnd ==
    /\ status = "stepped" /\ pokey_env.freq_active
    /\ pokey_env.freq_loop_count = 0 /\ pokey_env.freq_pos = 0
    /\ pokey_env.freq_frame_ctr = 0

(***************************************************************************)
(* YM2151Emulator: the envelope generator of render and the key on/off     *)
(* write                                                                   *)
(***************************************************************************)
\* period = (1 << shift) if shift > 0 else 1
EgPeriod(shift) == IF shift > 0 THEN 2^shift ELSE 1

\* Attack: eff = rate * 2 (+ kc >> (3 - ks) when ks > 0), capped at 63
EgEffAttack(c, i) ==
    Min(63, IF c.op_ks[i] > 0
            THEN c.op_ar[i] * 2 + (c.ch_kc[i % 8] \div 2^(3 - c.op_ks[i]))
            ELSE c.op_ar[i] * 2)

\* Decay 1 and Decay 2: eff = rate * 2 + (ks >> 1), capped at 63
EgEffDecay(c, i, rate) == Min(63, rate * 2 + (c.op_ks[i] \div 2))

\* target = (d1l << 5) if d1l < 15 else 1023
EgTarget(c, i) == IF c.op_d1l[i] < 15 THEN c.op_d1l[i] * 32 ELSE 1023

\* the envelope of operator i as it is
EgKeep(c, i) ==
    [phase |-> c.op_eg_phase[i], level |-> c.op_eg_level[i],
     counter |-> c.op_eg_counter[i]]

\* the envelope of operator i with its counter incremented
EgCount(c, i) == [EgKeep(c, i) EXCEPT !.counter = @ + 1]

\* step = lev >> shift2 (lev when shift2 is 0), at least 1
EgAttackStep(lev, eff) ==
    Max(1, IF 3 - (eff % 4) > 0 THEN lev \div 2^(3 - (eff % 4)) ELSE lev)

\* p == 0, Attack
EgAttack(c, i, eff) ==
    IF c.op_ar[i] = 0 THEN EgKeep(c, i)
    ELSE IF eff >= 62
    THEN [EgKeep(c, i) EXCEPT !.level = 0, !.phase = 1]
    ELSE IF c.op_eg_counter[i] + 1 >= EgPeriod(8 - (eff \div 4))
    THEN IF c.op_eg_level[i] - EgAttackStep(c.op_eg_level[i], eff) <= 0
         THEN [phase |-> 1, level |-> 0, counter |-> 0]
         ELSE [phase |-> 0, counter |-> 0,
               level |-> c.op_eg_level[i]
                         - EgAttackStep(c.op_eg_level[i], eff)]
    ELSE EgCount(c, i)

\* p == 1, Decay 1
EgDecay1(c, i, eff) ==
    IF c.op_d1r[i] = 0 THEN EgKeep(c, i)
    ELSE IF c.op_eg_counter[i] + 1 >= EgPeriod(8 - (eff \div 4))
    THEN IF c.op_eg_level[i] + 1 + (eff % 4) >= EgTarget(c, i)
         THEN [phase |-> 2, level |-> EgTarget(c, i), counter |-> 0]
         ELSE [phase |-> 1, level |-> c.op_eg_level[i] + 1 + (eff % 4),
               counter |-> 0]
    ELSE EgCount(c, i)

\* p == 2, Decay 2 / Sustain
EgDecay2(c, i, eff) ==
    IF c.op_d2r[i] = 0 THEN EgKeep(c, i)
    ELSE IF c.op_eg_counter[i] + 1 >= EgPeriod(8 - (eff \div 4))
    THEN [phase |-> 2, counter |-> 0,
          level |-> Min(1023, c.op_eg_level[i] + 1 + (eff % 4))]
    ELSE EgCount(c, i)

\* Release without the cap of the level
EgRelease_unclamped(c, i) ==
    IF YmEgDue(c, i)
    THEN [phase |-> 3, counter |-> 0,
          level |-> c.op_eg_level[i] + 2 + (YmEff(c, i) % 4)]
    ELSE EgCount(c, i)

\* p == 3, Release
EgRelease(c, i) ==
    IF YmEgDue(c, i)
    THEN [phase |-> 3, counter |-> 0,
          level |-> Min(1023, c.op_eg_level[i] + 2 + (YmEff(c, i) % 4))]
    ELSE EgCount(c, i)

\* one pass of `for i in range(32)` for operator i
EgOp(c, i) ==
    IF c.op_eg_phase[i] = 0 THEN EgAttack(c, i, EgEffAttack(c, i))
    ELSE IF c.op_eg_phase[i] = 1
    THEN EgDecay1(c, i, EgEffDecay(c, i, c.op_d1r[i]))
    ELSE IF c.op_eg_phase[i] = 2
    THEN EgDecay2(c, i, EgEffDecay(c, i, c.op_d2r[i]))
    ELSE EgRelease(c, i)

\* the envelopes e of the 32 operators stored in the chip
EgApply(c, e) ==
    [c EXCEPT !.op_eg_phase = [i \in 0..31 |-> e[i].phase],
              !.op_eg_level = [i \in 0..31 |-> e[i].level],
              !.op_eg_counter = [i \in 0..31 |-> e[i].counter]]

\* one native sample of render: eg_cnt, lfo_counter and the phase
\* accumulators as in YmAdvance, the envelopes in all four phases
YmTick(c, e) == EgApply(YmAdvance(c), e)

\* ---- key on/off writes between native samples ----
\* AR = 31 for M1 of channel 0; key on/off of channel 0 (slot 0; none;
\* slots 1 and 3) and of channel 1 (all slots)
KeyWrites == { <<128, 31>>, <<8, 8>>, <<8, 0>>, <<8, 80>>, <<8, 121>> }

MaxKeyWrites == 4
MaxKeyTicks == 3

\* write(addr, data)
KeyWrite ==
    /\ ym.status = "key" /\ ym.writes < MaxKeyWrites
    /\ \E w \in KeyWrites :
          ym' = [ym EXCEPT !.c = YmWrite(@, w[1], w[2]), !.writes = @ + 1,
                           !.last = w]
    /\ UNCHANGED not_ym

\* one pass of `for n in range(total_native)`
KeyTick ==
    /\ ym.status = "key" /\ ym.ticks < MaxKeyTicks
    /\ \E e \in {[i \in 0..31 |-> EgOp(ym.c, i)]} :
          ym' = [ym EXCEPT !.c = YmTick(@, e), !.ticks = @ + 1,
                           !.last = << 0, 0 >>]
    /\ UNCHANGED not_ym

InitKey ==
    /\ rom = "main" /\ IdleBut_ym
    /\ ym = [status |-> "key", c |-> YmReset, writes |-> 0, ticks |-> 0,
             last |-> << 0, 0 >>]

NextKey == KeyWrite \/ KeyTick

SpecKey == InitKey /\ [][NextKey]_vars

\* ---- the envelopes alone (the phase accumulators, eg_cnt and         ----
\* ---- lfo_counter of a native sample are left out)                    ----
\* the chip after reset() and write(0xE0 + k, 0x0F) for k = 0..31:
\* RR = 15 and D1L = 0 for every operator
ReleaseRates == [YmReset EXCEPT !.op_rr = [i \in 0..31 |-> 15]]

\* registers of M1 of channel 0: AR = 31, AR = 30, D1R = 31, D2R = 31,
\* D1L = 1 / RR = 15, D1L = 15 / RR = 15; key on and key off of M1 of
\* channel 0
EgWrites ==
    { <<128, 31>>, <<128, 30>>, <<160, 31>>, <<192, 31>>, <<224, 31>>,
      <<224, 255>>, <<8, 8>>, <<8, 0>> }

MaxEgWrites == 5

\* write(addr, data)
EgWrite ==
    /\ ym.status = "eg" /\ ym.writes < MaxEgWrites
    /\ \E w \in EgWrites :
          ym' = [ym EXCEPT !.c = YmWrite(@, w[1], w[2]), !.writes = @ + 1,
                           !.last = w]
    /\ UNCHANGED not_ym

\* the envelope pass of one native sample
EgPass ==
    /\ ym.status = "eg"
    /\ \E e \in {[i \in 0..31 |-> EgOp(ym.c, i)]} :
          ym' = [ym EXCEPT !.c = EgApply(@, e), !.last = << 0, 0 >>]
    /\ UNCHANGED not_ym

InitEg ==
    /\ rom = "main" /\ IdleBut_ym
    /\ ym = [status |-> "eg", c |-> ReleaseRates, writes |-> 0,
             last |-> << 0, 0 >>]

NextEg == EgWrite \/ EgPass

SpecEg == InitEg /\ [][NextEg]_vars

(***************************************************************************)
(* Properties of the key on/off write and the envelope generator           *)
(***************************************************************************)
\* the step is a write to register 0x08
KeyStep == ym'.writes = ym.writes + 1 /\ ym'.last[1] = 8

\* the envelope and phase of operator i are the same in c and d
SameOp(c, d, i) ==
    /\ c.op_eg_phase[i] = d.op_eg_phase[i]
    /\ c.op_eg_level[i] = d.op_eg_level[i]
    /\ c.op_eg_counter[i] = d.op_eg_counter[i]
    /\ c.op_phase[i] = d.op_phase[i]

\* C36: a write of data to register 0x08 changes nothing but op_key_on,
\* the envelope and the phase of the operators ch + 8 s of ch = data & 7;
\* operator ch + 8 s is keyed on iff bit 3 + s of data is set, off-to-on
\* restarts it (Attack, level 1023, counter 0, phase 0), on-to-off puts it
\* into Release with level, counter and phase kept, an unchanged key state
\* leaves envelope and phase as they were; the operators of the other
\* channels keep their key state, envelope and phase.
C36_KeyOn ==
    [][ym.status = "key" /\ KeyStep =>
          /\ \A i \in 0..31 :
                IF i % 8 = ym'.last[2] % 8
                THEN /\ ym'.c.op_key_on[i]
                            <=> Bit(ym'.last[2], 3 + (i \div 8)) = 1
                     /\ ~ym.c.op_key_on[i] /\ ym'.c.op_key_on[i] =>
                            /\ ym'.c.op_eg_phase[i] = 0
                            /\ ym'.c.op_eg_level[i] = 1023
                            /\ ym'.c.op_eg_counter[i] = 0
                            /\ ym'.c.op_phase[i] = 0
                     /\ ym.c.op_key_on[i] /\ ~ym'.c.op_key_on[i] =>
                            /\ ym'.c.op_eg_phase[i] = 3
                            /\ ym'.c.op_eg_level[i] = ym.c.op_eg_level[i]
                            /\ ym'.c.op_eg_counter[i] = ym.c.op_eg_counter[i]
                            /\ ym'.c.op_phase[i] = ym.c.op_phase[i]
                     /\ ym.c.op_key_on[i] = ym'.c.op_key_on[i] =>
                            SameOp(ym.c, ym'.c, i)
                ELSE /\ ym'.c.op_key_on[i] = ym.c.op_key_on[i]
                     /\ SameOp(ym.c, ym'.c, i)
          /\ ym.c = [ym'.c EXCEPT !.op_key_on = ym.c.op_key_on,
                                  !.op_eg_phase = ym.c.op_eg_phase,
                                  !.op_eg_level = ym.c.op_eg_level,
                                  !.op_eg_counter = ym.c.op_eg_counter,
                                  !.op_phase = ym.c.op_phase]]_vars

\* M1 of channel 0 was keyed on with AR = 31 and rendered, then 0x50 was
\* written: M1 went to Release at the level and phase it had, the slots 1
\* and 3 were restarted, slot 2 was left alone
C36_Witness ==
    /\ ym.status = "key" /\ ym.last = << 8, 80 >>
    /\ ~ym.c.op_key_on[0] /\ ym.c.op_eg_phase[0] = 3
    /\ ym.c.op_eg_level[0] = 0 /\ ym.c.op_phase[0] # 0
    /\ ym.c.op_key_on[8] /\ ym.c.op_eg_phase[8] = 0
    /\ ym.c.op_eg_level[8] = 1023 /\ ym.c.op_phase[8] = 0
    /\ ~ym.c.op_key_on[16] /\ ym.c.op_phase[16] # 0
    /\ ym.c.op_key_on[24] /\ ym.c.op_phase[24] = 0

\* key on written again while M1 of channel 0 is in Decay 1: nothing moved
C36_WitnessAgain ==
    /\ ym.status = "key" /\ ym.last = << 8, 8 >>
    /\ ym.c.op_key_on[0] /\ ym.c.op_eg_phase[0] = 1
    /\ ym.c.op_eg_level[0] = 0 /\ ym.c.op_phase[0] # 0

\* C37: the envelope level of every operator is in 0..1023, and its phase
\* changes only from Attack to Decay 1 in an envelope pass (the level
\* becomes 0: the effective rate is >= 62 or the attack step reaches 0),
\* from Decay 1 to Decay 2 in an envelope pass (the level reaches
\* D1L << 5, or 1023 when D1L = 15, and is set to it), to Release by a
\* key-off write and to Attack by a key-on write.
C37_Envelope ==
    /\ [](ym.status = "eg" =>
            \A i \in 0..31 : /\ ym.c.op_eg_level[i] \in 0..1023
                             /\ ym.c.op_eg_phase[i] \in 0..3)
    /\ [][ym.status = "eg" =>
            \A i \in 0..31 :
               ym'.c.op_eg_phase[i] # ym.c.op_eg_phase[i] =>
                  \/ /\ ~KeyStep /\ ym'.writes = ym.writes
                     /\ ym.c.op_eg_phase[i] = 0 /\ ym'.c.op_eg_phase[i] = 1
                     /\ ym'.c.op_eg_level[i] = 0
                     /\ \/ EgEffAttack(ym.c, i) >= 62
                        \/ ym.c.op_eg_level[i] <=
                              EgAttackStep(ym.c.op_eg_level[i],
                                           EgEffAttack(ym.c, i))
                  \/ /\ ~KeyStep /\ ym'.writes = ym.writes
                     /\ ym.c.op_eg_phase[i] = 1 /\ ym'.c.op_eg_phase[i] = 2
                     /\ ym'.c.op_eg_level[i] =
                           (IF ym.c.op_d1l[i] = 15 THEN 1023
                            ELSE ym.c.op_d1l[i] * 32)
                     /\ ym.c.op_eg_level[i] + 4 >= ym'.c.op_eg_level[i]
                  \/ /\ KeyStep /\ ym'.c.op_eg_phase[i] = 3
                     /\ ym.c.op_key_on[i] /\ ~ym'.c.op_key_on[i]
                  \/ /\ KeyStep /\ ym'.c.op_eg_phase[i] = 0
                     /\ ~ym.c.op_key_on[i] /\ ym'.c.op_key_on[i]]_vars

\* M1 of channel 0 went through Attack and Decay 1 up to 1023 (D1L = 15)
C37_Witness ==
    /\ ym.status = "eg" /\ ym.c.op_key_on[0] /\ ym.c.op_eg_phase[0] = 2
    /\ ym.c.op_d1l[0] = 15 /\ ym.c.op_eg_level[0] = 1023

\* a gradual attack (AR = 30) on its way to level 0
C37_WitnessAttack ==
    /\ ym.status = "eg" /\ ym.c.op_eg_phase[0] = 0 /\ ym.c.op_ar[0] = 30
    /\ ym.c.op_eg_level[0] \in 1..8

\* Decay 2 from 32 (D1L = 1) capped at 1023
C37_WitnessSustain ==
    /\ ym.status = "eg" /\ ym.c.op_eg_phase[0] = 2 /\ ym.c.op_d1l[0] = 1
    /\ ym.c.op_d2r[0] = 31 /\ ym.c.op_eg_level[0] = 1023

\* released from Decay 1 before the level was back at 1023
C37_WitnessRelease ==
    /\ ym.status = "eg" /\ ym.c.op_eg_phase[0] = 3 /\ ~ym.c.op_key_on[0]
    /\ ym.c.op_eg_level[0] \in 1..1022

====
